---- MODULE Spec2Model ----
(***************************************************************************)
(* Transaction dispatch of the ACP contract client.                        *)
(*                                                                         *)
(* AcpContractClient.sendTransaction (the gas-sponsorship generation of    *)
(* the client) turns one logical contract call into a confirmed            *)
(* transaction: it tries GasSponsorshipManager.sendSponsoredTransaction,   *)
(* whose submissions are chained on the manager's nonceQueue promise, and  *)
(* falls through to the regular flow (calculateGasFees, estimateGas,       *)
(* sessionSigner.sendTransaction, waitForTransactionReceipt).              *)
(*                                                                         *)
(* Every await of the source is one position of a dispatch (pc); every     *)
(* action is the code that runs between two awaits.  JavaScript is         *)
(* single-threaded, so that code is atomic; dispatches interleave only at  *)
(* awaits.  The outcome of an external call (return value or thrown        *)
(* error) is chosen by the action that resumes the dispatch.               *)
(***************************************************************************)
EXTENDS Integers, Sequences, FiniteSets, TLC

\* Number of concurrent sendTransaction calls issued against one client.
NumDispatch == 2

Dispatches == 1..NumDispatch

\* setTimeout(r, 500) before a queued submission, setTimeout(r, 2000) before
\* the retry.
NonceDelayMs == 500
RetryBackoffMs == 2000

\* A sponsored submission that returns null (no hash).
NoHash == 0

\* Transaction hashes are unique per broadcast: the hash returned by the
\* k-th submission call of dispatch d (1 = first sponsored attempt,
\* 2 = sponsored retry, 3 = sessionSigner.sendTransaction).
HashOf(d, k) == 3 * (d - 1) + k

Hashes == 1..(3 * NumDispatch)

\* error.message of what smartAccountClient.sendTransaction throws, as a
\* sequence of characters; <<>> stands for an error without a message.
MsgAA25 == <<"A", "A", "2", "5", " ", "b", "a", "d">>
MsgNonce == <<"n", "o", "n", "c", "e", "s">>
MsgUpperNonce == <<"N", "o", "n", "c", "e">>
NoMessage == <<>>

ErrorMessages == {MsgAA25, MsgNonce, MsgUpperNonce, NoMessage}

\* What the retry may throw: the retry's catch never inspects the error, so
\* one message of each class stands for all.
RetryErrorMessages == {MsgNonce, MsgUpperNonce}

\* String.prototype.includes: sub occurs in s as a contiguous substring.
Includes(s, sub) ==
    \E i \in 1..(Len(s) - Len(sub) + 1) : SubSeq(s, i, i + Len(sub) - 1) = sub

\* Variant: only the 'AA25' signature is recognized as a nonce conflict.
IsNonceError_AA25Only(msg) == Includes(msg, <<"A", "A", "2", "5">>)

\* error.message?.includes('AA25') || error.message?.includes('nonce')
IsNonceError(msg) ==
    \/ Includes(msg, <<"A", "A", "2", "5">>)
    \/ Includes(msg, <<"n", "o", "n", "c", "e">>)

VARIABLES
    clientPc,               \* position of AcpContractClient.init
    config,                 \* what the injected configuration provides
    gasSponsorshipManager,  \* this.gasSponsorshipManager is set
    smartAccountClient,     \* manager's smartAccountClient is set
    pendingNonce,           \* GasSponsorshipManager.pendingNonce
    nonceQueue,             \* tasks chained on this.nonceQueue, not settled
    enqOrder,               \* dispatches in the order they were chained
    startOrder,             \* dispatches in the order their task started
    settleOrder,            \* dispatches in the order their task settled
    pc,                     \* position of each sendTransaction call
    forceEOA,               \* the forceEOA argument of each call
    sponsoredHash,          \* what sendSponsoredTransaction resolved with
    hash,                   \* what sessionSigner.sendTransaction returned
    result,                 \* the hash returned by sendTransaction
    error,                  \* the call whose error sendTransaction threw
    failedAt,               \* the position at which sendTransaction threw
    attempts,               \* outcome of each sponsored submission call
    sponsorRejected,        \* sendSponsoredTransaction resolved with null
    waited,                 \* milliseconds slept before the first attempt
    backoff,                \* milliseconds slept before the retry
    receipt,                \* status of each receipt the client has seen
    nSponsored,             \* smartAccountClient.sendTransaction calls
    nFeeEst,                \* publicClient.estimateFeesPerGas calls
    nGasEst,                \* publicClient.estimateGas calls
    nDirect,                \* sessionSigner.sendTransaction calls
    firstCall,              \* first external call made by each dispatch
    fee,                    \* one calculateGasFees evaluation
    lanes,                  \* the nonceQueue lanes of two sponsorship managers
    batch,                  \* one sendBatchTransactions call
    recovery,               \* one createJob / getMemoId identifier recovery
    signer,                 \* one PrivySessionSigner.sendTransaction call
    signing,                \* one generateAuthorizationSignature evaluation
    walletAuth,             \* the key quorums of one wallet (PrivyAuthKeyManager)
    operation,              \* one public operation of the client
    memo,                   \* one AcpMemo
    store,                  \* the map of WalletAuthStore
    transfer,               \* one transferAllBalance call
    jobs                    \* one createMultipleJobs call

\* The parts added last, each with a specification of its own.
laterVars == <<memo, store, transfer, jobs>>

\* The parts of the program other than the dispatch of one client; each is
\* exercised by a specification of its own and is at rest in the others.
otherVars ==
    <<fee, lanes, batch, recovery, signer, signing, walletAuth, operation, laterVars>>

clientVars == <<clientPc, config, gasSponsorshipManager, smartAccountClient,
                otherVars>>
laneVars == <<pendingNonce, nonceQueue, enqOrder, startOrder, settleOrder>>
sponsoredVars == <<sponsoredHash, attempts, sponsorRejected, waited, backoff,
                   nSponsored>>
directVars == <<hash, nFeeEst, nGasEst, nDirect>>
outcomeVars == <<result, error, failedAt>>

vars == <<clientPc, config, gasSponsorshipManager, smartAccountClient,
          pendingNonce, nonceQueue, enqOrder, startOrder, settleOrder,
          pc, forceEOA, sponsoredHash, hash, result, error, failedAt,
          attempts, sponsorRejected, waited, backoff, receipt, nSponsored, nFeeEst,
          nGasEst, nDirect, firstCall, fee, lanes, batch, recovery, signer,
          signing, walletAuth, operation, laterVars>>

\* The states of a dispatch in which a submission call is outstanding.
SponsoredSubmitStates == {"sponsoredSend", "retrySend"}
DirectSubmitStates == {"signerSend"}
\* The states of a dispatch whose task is running on the nonceQueue.  The
\* state "catchThrew" is not among them: there the catch block of the task's
\* callback has thrown, the callback's promise, and with it nonceQueue, is
\* rejected, and resolve is never called.
TaskStates == {"nonceDelay", "sponsoredSend", "retryBackoff", "retrySend"}
DirectStates == {"estimateFees", "estimateGas", "signerSend", "directReceipt"}
Terminal == {"succeeded", "failed"}

\* A part of the program that is not exercised.
AtRest == [pc |-> "rest"]

LaterAtRest ==
    /\ memo = AtRest
    /\ store = AtRest
    /\ transfer = AtRest
    /\ jobs = AtRest

\* The dispatch variables of a client on which nothing has been called.
DispatchInit ==
    /\ clientPc = "constructed"
    /\ config \in [sponsorUrls : BOOLEAN, privyCredentials : BOOLEAN]
    /\ gasSponsorshipManager = FALSE
    /\ smartAccountClient = FALSE
    /\ pendingNonce = 0
    /\ nonceQueue = <<>>
    /\ enqOrder = <<>>
    /\ startOrder = <<>>
    /\ settleOrder = <<>>
    /\ pc = [d \in Dispatches |-> "idle"]
    /\ forceEOA = [d \in Dispatches |-> FALSE]
    /\ sponsoredHash = [d \in Dispatches |-> NoHash]
    /\ hash = [d \in Dispatches |-> NoHash]
    /\ result = [d \in Dispatches |-> NoHash]
    /\ error = [d \in Dispatches |-> "none"]
    /\ failedAt = [d \in Dispatches |-> "none"]
    /\ attempts = [d \in Dispatches |-> <<>>]
    /\ sponsorRejected = [d \in Dispatches |-> FALSE]
    /\ waited = [d \in Dispatches |-> 0]
    /\ backoff = [d \in Dispatches |-> 0]
    /\ receipt = [h \in Hashes |-> "none"]
    /\ nSponsored = [d \in Dispatches |-> 0]
    /\ nFeeEst = [d \in Dispatches |-> 0]
    /\ nGasEst = [d \in Dispatches |-> 0]
    /\ nDirect = [d \in Dispatches |-> 0]
    /\ firstCall = [d \in Dispatches |-> "none"]

Init ==
    /\ DispatchInit
    /\ fee = AtRest
    /\ lanes = AtRest
    /\ batch = AtRest
    /\ recovery = AtRest
    /\ signer = AtRest
    /\ signing = AtRest
    /\ walletAuth = AtRest
    /\ operation = AtRest
    /\ LaterAtRest

----
\* AcpContractClient.init and setupGasSponsorship up to the await of
\* gasSponsorshipManager.initialize().
ClientInit ==
    /\ clientPc = "constructed"
    /\ IF config.sponsorUrls /\ config.privyCredentials
         THEN /\ gasSponsorshipManager' = TRUE
              /\ clientPc' = "initializing"
         ELSE /\ gasSponsorshipManager' = FALSE
              /\ clientPc' = "ready"
    /\ UNCHANGED <<config, smartAccountClient, laneVars, pc, forceEOA,
                   sponsoredVars, directVars, outcomeVars, receipt, firstCall,
                   otherVars>>

\* Variant: the manager is kept when initialize did not return true.
InitializeReturn_KeepsManager ==
    /\ clientPc = "initializing"
    /\ \E ok \in BOOLEAN :
         /\ smartAccountClient' = ok
         /\ gasSponsorshipManager' = TRUE
    /\ clientPc' = "ready"
    /\ UNCHANGED <<config, laneVars, pc, forceEOA, sponsoredVars, directVars,
                   outcomeVars, receipt, firstCall, otherVars>>

\* GasSponsorshipManager.initialize settles: it sets smartAccountClient and
\* returns true, or catches a failure and returns false; setupGasSponsorship
\* unsets the manager unless initialize returned true.
InitializeReturn ==
    /\ clientPc = "initializing"
    /\ \E ok \in BOOLEAN :
         /\ smartAccountClient' = ok
         /\ gasSponsorshipManager' = ok
    /\ clientPc' = "ready"
    /\ UNCHANGED <<config, laneVars, pc, forceEOA, sponsoredVars, directVars,
                   outcomeVars, receipt, firstCall, otherVars>>

\* GasSponsorshipManager.isInitialized
isInitialized == smartAccountClient

----
\* sendTransaction throws the error raised by the named call.
Throw(d, call) ==
    /\ pc' = [pc EXCEPT ![d] = "failed"]
    /\ error' = [error EXCEPT ![d] = call]
    /\ failedAt' = [failedAt EXCEPT ![d] = pc[d]]
    /\ UNCHANGED result

\* sendTransaction returns h.
Return(d, h) ==
    /\ pc' = [pc EXCEPT ![d] = "succeeded"]
    /\ result' = [result EXCEPT ![d] = h]
    /\ UNCHANGED <<error, failedAt>>

\* The fields of the argument of smartAccountClient.sendTransaction.
SubmissionParams == {"to", "data", "value"}

\* The record of a submission call that returned a hash / threw an Error
\* with message msg / threw a value whose message cannot be searched.
Returned == [ok |-> TRUE, message |-> NoMessage, searchable |-> TRUE,
             params |-> SubmissionParams]

Threw(msg) == [ok |-> FALSE, message |-> msg, searchable |-> TRUE,
               params |-> SubmissionParams]

\* The call rejected with null, undefined, or an object whose message is
\* neither a string nor undefined: error.message?.includes(...) is then a
\* TypeError (no property of null or undefined can be read; includes is not
\* a function).
ThrewUnsearchable == [ok |-> FALSE, message |-> NoMessage,
                      searchable |-> FALSE, params |-> SubmissionParams]

\* "Regular transaction flow": the dispatch calls calculateGasFees, whose
\* first statement awaits publicClient.estimateFeesPerGas().
EnterRegularFlow(d) ==
    /\ pc' = [pc EXCEPT ![d] = "estimateFees"]
    /\ nFeeEst' = [nFeeEst EXCEPT ![d] = @ + 1]
    /\ firstCall' = [firstCall EXCEPT ![d] =
                        IF @ = "none" THEN "estimateFeesPerGas" ELSE @]

\* smartAccountClient.sendTransaction is called by the task of dispatch d.
BeginSponsoredSend(d, next) ==
    /\ pc' = [pc EXCEPT ![d] = next]
    /\ nSponsored' = [nSponsored EXCEPT ![d] = @ + 1]
    /\ firstCall' = [firstCall EXCEPT ![d] =
                        IF @ = "none" THEN "smartAccountClient.sendTransaction"
                        ELSE @]

\* The async callback chained on nonceQueue returns: the next chained task
\* may start.
TaskSettles(d) ==
    /\ nonceQueue' = Tail(nonceQueue)
    /\ settleOrder' = Append(settleOrder, d)

\* Variant: the forceEOA flag is not consulted by path selection.
SendTransaction_IgnoresForce(d, force) ==
    /\ pc[d] = "idle"
    /\ \A e \in 1..(d - 1) : pc[e] # "idle"
    /\ forceEOA' = [forceEOA EXCEPT ![d] = force]
    /\ IF gasSponsorshipManager /\ isInitialized
         THEN /\ nonceQueue' = Append(nonceQueue, d)
              /\ enqOrder' = Append(enqOrder, d)
              /\ pc' = [pc EXCEPT ![d] = "queued"]
              /\ UNCHANGED <<nFeeEst, firstCall>>
         ELSE /\ EnterRegularFlow(d)
              /\ UNCHANGED <<nonceQueue, enqOrder>>
    /\ UNCHANGED <<clientVars, pendingNonce, startOrder, settleOrder,
                   sponsoredVars, hash, nGasEst, nDirect, outcomeVars,
                   receipt>>

\* sendTransaction is called: path selection, and for the sponsored path the
\* synchronous part of sendSponsoredTransaction, which chains the task.
\* Dispatches are numbered in the order in which they are called.
SendTransaction(d, force) ==
    /\ pc[d] = "idle"
    /\ \A e \in 1..(d - 1) : pc[e] # "idle"
    /\ forceEOA' = [forceEOA EXCEPT ![d] = force]
    /\ IF ~force /\ gasSponsorshipManager /\ isInitialized
         THEN /\ nonceQueue' = Append(nonceQueue, d)
              /\ enqOrder' = Append(enqOrder, d)
              /\ pc' = [pc EXCEPT ![d] = "queued"]
              /\ UNCHANGED <<nFeeEst, firstCall>>
         ELSE /\ EnterRegularFlow(d)
              /\ UNCHANGED <<nonceQueue, enqOrder>>
    /\ UNCHANGED <<clientVars, pendingNonce, startOrder, settleOrder,
                   sponsoredVars, hash, nGasEst, nDirect, outcomeVars,
                   receipt>>

\* Variant: the callback is not chained on nonceQueue; it starts as soon as
\* sendSponsoredTransaction is called.
TaskStart_Unchained(d) ==
    /\ pc[d] = "queued"
    /\ startOrder' = Append(startOrder, d)
    /\ IF pendingNonce > 0
         THEN /\ pc' = [pc EXCEPT ![d] = "nonceDelay"]
              /\ UNCHANGED <<nSponsored, firstCall>>
         ELSE BeginSponsoredSend(d, "sponsoredSend")
    /\ UNCHANGED <<clientVars, pendingNonce, nonceQueue, enqOrder, settleOrder,
                   forceEOA, sponsoredHash, attempts, sponsorRejected, waited,
                   backoff, directVars, outcomeVars, receipt>>

\* The chained callback of dispatch d starts once every task chained before
\* it has settled; it sleeps first when pendingNonce > 0.
TaskStart(d) ==
    /\ pc[d] = "queued"
    /\ nonceQueue # <<>>
    /\ Head(nonceQueue) = d
    /\ startOrder' = Append(startOrder, d)
    /\ IF pendingNonce > 0
         THEN /\ pc' = [pc EXCEPT ![d] = "nonceDelay"]
              /\ UNCHANGED <<nSponsored, firstCall>>
         ELSE BeginSponsoredSend(d, "sponsoredSend")
    /\ UNCHANGED <<clientVars, pendingNonce, nonceQueue, enqOrder, settleOrder,
                   forceEOA, sponsoredHash, attempts, sponsorRejected, waited,
                   backoff, directVars, outcomeVars, receipt>>

\* setTimeout(r, 500) fires; the first submission is made.
NonceDelayElapsed(d) ==
    /\ pc[d] = "nonceDelay"
    /\ waited' = [waited EXCEPT ![d] = NonceDelayMs]
    /\ BeginSponsoredSend(d, "sponsoredSend")
    /\ UNCHANGED <<clientVars, laneVars, forceEOA, sponsoredHash, attempts,
                   sponsorRejected, backoff, directVars, outcomeVars, receipt>>

\* Variant: pendingNonce is not incremented by a successful submission.
SponsoredResolveHash_NoCount(d, h) ==
    /\ sponsoredHash' = [sponsoredHash EXCEPT ![d] = h]
    /\ pendingNonce' = pendingNonce
    /\ TaskSettles(d)
    /\ pc' = [pc EXCEPT ![d] = "sponsoredReceipt"]
    /\ UNCHANGED <<sponsorRejected, nFeeEst, firstCall, outcomeVars>>

\* sendSponsoredTransaction resolves with hash h and its task settles;
\* sendTransaction goes on to wait for the receipt of h.
SponsoredResolveHash(d, h) ==
    /\ sponsoredHash' = [sponsoredHash EXCEPT ![d] = h]
    /\ pendingNonce' = pendingNonce + 1
    /\ TaskSettles(d)
    /\ pc' = [pc EXCEPT ![d] = "sponsoredReceipt"]
    /\ UNCHANGED <<sponsorRejected, nFeeEst, firstCall, outcomeVars>>

\* Variant: a rejected sponsored submission is thrown to the caller instead
\* of being resolved as null.
SponsoredResolveNull_Fatal(d) ==
    /\ sponsorRejected' = [sponsorRejected EXCEPT ![d] = TRUE]
    /\ TaskSettles(d)
    /\ Throw(d, "smartAccountClient.sendTransaction")
    /\ UNCHANGED <<sponsoredHash, pendingNonce, nFeeEst, firstCall>>

\* sendSponsoredTransaction resolves with null and its task settles;
\* sendTransaction falls through to the regular flow.
SponsoredResolveNull(d) ==
    /\ sponsorRejected' = [sponsorRejected EXCEPT ![d] = TRUE]
    /\ TaskSettles(d)
    /\ EnterRegularFlow(d)
    /\ UNCHANGED <<sponsoredHash, pendingNonce, outcomeVars>>

\* The first smartAccountClient.sendTransaction call returns a hash or
\* throws.  A thrown Error with message msg is retried after a nonce
\* conflict and resolved as null otherwise.  On a thrown value whose message
\* cannot be searched the test of the catch block throws in its turn: the
\* callback rejects, so does nonceQueue, resolve is never called, and the
\* task stays at the head of the chain, where no later callback can start.
SponsoredSendReturn(d) ==
    /\ pc[d] = "sponsoredSend"
    /\ \/ /\ attempts' = [attempts EXCEPT ![d] =
                             Append(@, Returned)]
          /\ SponsoredResolveHash(d, HashOf(d, 1))
       \/ \E msg \in ErrorMessages :
            /\ attempts' = [attempts EXCEPT ![d] =
                               Append(@, Threw(msg))]
            /\ IF IsNonceError(msg)
                 THEN /\ pc' = [pc EXCEPT ![d] = "retryBackoff"]
                      /\ UNCHANGED <<sponsoredHash, sponsorRejected,
                                     pendingNonce, nonceQueue, settleOrder,
                                     nFeeEst, firstCall, outcomeVars>>
                 ELSE SponsoredResolveNull(d)
       \/ /\ attempts' = [attempts EXCEPT ![d] =
                             Append(@, ThrewUnsearchable)]
          /\ pc' = [pc EXCEPT ![d] = "catchThrew"]
          /\ UNCHANGED <<sponsoredHash, sponsorRejected, pendingNonce,
                         nonceQueue, settleOrder, nFeeEst, firstCall,
                         outcomeVars>>
    /\ UNCHANGED <<clientVars, enqOrder, startOrder, forceEOA, waited, backoff,
                   nSponsored, hash, nGasEst, nDirect, receipt>>

\* setTimeout(r, 2000) fires; the submission is made a second time.
RetryBackoffElapsed(d) ==
    /\ pc[d] = "retryBackoff"
    /\ backoff' = [backoff EXCEPT ![d] = RetryBackoffMs]
    /\ BeginSponsoredSend(d, "retrySend")
    /\ UNCHANGED <<clientVars, laneVars, forceEOA, sponsoredHash, attempts,
                   sponsorRejected, waited, directVars, outcomeVars, receipt>>

\* Variant: the retry's hash is not passed to resolve; the task resolves
\* with null whether or not the retry succeeded.
RetrySendReturn_DropsHash(d) ==
    /\ pc[d] = "retrySend"
    /\ \/ /\ attempts' = [attempts EXCEPT ![d] =
                             Append(@, Returned)]
          /\ SponsoredResolveNull(d)
       \/ \E msg \in RetryErrorMessages :
            /\ attempts' = [attempts EXCEPT ![d] =
                               Append(@, Threw(msg))]
            /\ SponsoredResolveNull(d)
    /\ UNCHANGED <<clientVars, enqOrder, startOrder, forceEOA, waited, backoff,
                   nSponsored, hash, nGasEst, nDirect, receipt>>

\* Variant: a retry that throws is followed by another backoff and a third
\* submission.
RetrySendReturn_RetriesAgain(d) ==
    /\ pc[d] = "retrySend"
    /\ \/ /\ attempts' = [attempts EXCEPT ![d] =
                             Append(@, Returned)]
          /\ SponsoredResolveHash(d, HashOf(d, 2))
       \/ \E msg \in RetryErrorMessages :
            /\ attempts' = [attempts EXCEPT ![d] =
                               Append(@, Threw(msg))]
            /\ IF nSponsored[d] < 3
                 THEN /\ pc' = [pc EXCEPT ![d] = "retryBackoff"]
                      /\ UNCHANGED <<sponsoredHash, sponsorRejected,
                                     pendingNonce, nonceQueue, settleOrder,
                                     nFeeEst, firstCall, outcomeVars>>
                 ELSE SponsoredResolveNull(d)
    /\ UNCHANGED <<clientVars, enqOrder, startOrder, forceEOA, waited, backoff,
                   nSponsored, hash, nGasEst, nDirect, receipt>>

\* The second smartAccountClient.sendTransaction call returns a hash or
\* throws; whatever it throws, the task resolves with null.
RetrySendReturn(d) ==
    /\ pc[d] = "retrySend"
    /\ \/ /\ attempts' = [attempts EXCEPT ![d] =
                             Append(@, Returned)]
          /\ SponsoredResolveHash(d, HashOf(d, 2))
       \/ \E msg \in RetryErrorMessages :
            /\ attempts' = [attempts EXCEPT ![d] =
                               Append(@, Threw(msg))]
            /\ SponsoredResolveNull(d)
    /\ UNCHANGED <<clientVars, enqOrder, startOrder, forceEOA, waited, backoff,
                   nSponsored, hash, nGasEst, nDirect, receipt>>

\* Variant: a sponsored receipt whose status is not 'success' is thrown to
\* the caller instead of falling through to the regular flow.
SponsoredReceiptReturn_Fatal(d) ==
    /\ pc[d] = "sponsoredReceipt"
    /\ \/ /\ receipt' = [receipt EXCEPT ![sponsoredHash[d]] = "success"]
          /\ Return(d, sponsoredHash[d])
       \/ /\ receipt' = [receipt EXCEPT ![sponsoredHash[d]] = "reverted"]
          /\ Throw(d, "Transaction failed")
       \/ /\ Throw(d, "waitForTransactionReceipt")
          /\ UNCHANGED receipt
    /\ UNCHANGED <<clientVars, laneVars, forceEOA, sponsoredVars, directVars,
                   firstCall>>

\* Variant: the sponsored hash is not returned after its receipt confirmed
\* success; the regular flow runs as well.
SponsoredReceiptReturn_NoReturn(d) ==
    /\ pc[d] = "sponsoredReceipt"
    /\ \/ /\ \E status \in {"success", "reverted"} :
               receipt' = [receipt EXCEPT ![sponsoredHash[d]] = status]
          /\ EnterRegularFlow(d)
          /\ UNCHANGED outcomeVars
       \/ /\ Throw(d, "waitForTransactionReceipt")
          /\ UNCHANGED <<receipt, nFeeEst, firstCall>>
    /\ UNCHANGED <<clientVars, laneVars, forceEOA, sponsoredVars, hash,
                   nGasEst, nDirect>>

\* Variant: a receipt wait that throws is caught and the regular flow runs.
SponsoredReceiptReturn_CatchesThrow(d) ==
    /\ pc[d] = "sponsoredReceipt"
    /\ \/ /\ receipt' = [receipt EXCEPT ![sponsoredHash[d]] = "success"]
          /\ Return(d, sponsoredHash[d])
          /\ UNCHANGED <<nFeeEst, firstCall>>
       \/ /\ receipt' = [receipt EXCEPT ![sponsoredHash[d]] = "reverted"]
          /\ EnterRegularFlow(d)
          /\ UNCHANGED outcomeVars
       \/ /\ EnterRegularFlow(d)
          /\ UNCHANGED <<receipt, outcomeVars>>
    /\ UNCHANGED <<clientVars, laneVars, forceEOA, sponsoredVars, hash,
                   nGasEst, nDirect>>

\* waitForTransactionReceipt({hash: sponsoredHash}) returns a receipt or
\* throws.
SponsoredReceiptReturn(d) ==
    /\ pc[d] = "sponsoredReceipt"
    /\ \/ /\ receipt' = [receipt EXCEPT ![sponsoredHash[d]] = "success"]
          /\ Return(d, sponsoredHash[d])
          /\ UNCHANGED <<nFeeEst, firstCall>>
       \/ /\ receipt' = [receipt EXCEPT ![sponsoredHash[d]] = "reverted"]
          /\ EnterRegularFlow(d)
          /\ UNCHANGED outcomeVars
       \/ /\ Throw(d, "waitForTransactionReceipt")
          /\ UNCHANGED <<receipt, nFeeEst, firstCall>>
    /\ UNCHANGED <<clientVars, laneVars, forceEOA, sponsoredVars, hash,
                   nGasEst, nDirect>>

\* publicClient.estimateFeesPerGas() returns (calculateGasFees computes the
\* fee ceiling and estimateGas is called) or throws.
EstimateFeesReturn(d) ==
    /\ pc[d] = "estimateFees"
    /\ \/ /\ pc' = [pc EXCEPT ![d] = "estimateGas"]
          /\ nGasEst' = [nGasEst EXCEPT ![d] = @ + 1]
          /\ UNCHANGED outcomeVars
       \/ /\ Throw(d, "estimateFeesPerGas")
          /\ UNCHANGED nGasEst
    /\ UNCHANGED <<clientVars, laneVars, forceEOA, sponsoredVars, hash, nFeeEst,
                   nDirect, receipt, firstCall>>

\* Variant: a gas estimation that throws is made once more.
EstimateGasReturn_Retries(d) ==
    /\ pc[d] = "estimateGas"
    /\ \/ /\ pc' = [pc EXCEPT ![d] = "signerSend"]
          /\ nDirect' = [nDirect EXCEPT ![d] = @ + 1]
          /\ UNCHANGED <<nGasEst, outcomeVars>>
       \/ /\ nGasEst[d] < 2
          /\ nGasEst' = [nGasEst EXCEPT ![d] = @ + 1]
          /\ UNCHANGED <<pc, nDirect, outcomeVars>>
       \/ /\ Throw(d, "estimateGas")
          /\ UNCHANGED <<nGasEst, nDirect>>
    /\ UNCHANGED <<clientVars, laneVars, forceEOA, sponsoredVars, hash, nFeeEst,
                   receipt, firstCall>>

\* publicClient.estimateGas returns (sessionSigner.sendTransaction is
\* called) or throws.
EstimateGasReturn(d) ==
    /\ pc[d] = "estimateGas"
    /\ \/ /\ pc' = [pc EXCEPT ![d] = "signerSend"]
          /\ nDirect' = [nDirect EXCEPT ![d] = @ + 1]
          /\ UNCHANGED outcomeVars
       \/ /\ Throw(d, "estimateGas")
          /\ UNCHANGED nDirect
    /\ UNCHANGED <<clientVars, laneVars, forceEOA, sponsoredVars, hash, nFeeEst,
                   nGasEst, receipt, firstCall>>

\* Variant: a submission the signing authority rejects is made once more.
SignerSendReturn_Resubmits(d) ==
    /\ pc[d] = "signerSend"
    /\ \/ /\ hash' = [hash EXCEPT ![d] = HashOf(d, 3)]
          /\ pc' = [pc EXCEPT ![d] = "directReceipt"]
          /\ UNCHANGED <<nDirect, outcomeVars>>
       \/ /\ nDirect[d] < 2
          /\ nDirect' = [nDirect EXCEPT ![d] = @ + 1]
          /\ UNCHANGED <<pc, hash, outcomeVars>>
       \/ /\ Throw(d, "sessionSigner.sendTransaction")
          /\ UNCHANGED <<hash, nDirect>>
    /\ UNCHANGED <<clientVars, laneVars, forceEOA, sponsoredVars, nFeeEst,
                   nGasEst, receipt, firstCall>>

\* sessionSigner.sendTransaction returns a hash (the receipt wait begins)
\* or throws.
SignerSendReturn(d) ==
    /\ pc[d] = "signerSend"
    /\ \/ /\ hash' = [hash EXCEPT ![d] = HashOf(d, 3)]
          /\ pc' = [pc EXCEPT ![d] = "directReceipt"]
          /\ UNCHANGED outcomeVars
       \/ /\ Throw(d, "sessionSigner.sendTransaction")
          /\ UNCHANGED hash
    /\ UNCHANGED <<clientVars, laneVars, forceEOA, sponsoredVars, nFeeEst,
                   nGasEst, nDirect, receipt, firstCall>>

\* Variant: the receipt's status is not checked before the hash is returned.
DirectReceiptReturn_NoStatusCheck(d) ==
    /\ pc[d] = "directReceipt"
    /\ \/ /\ \E status \in {"success", "reverted"} :
               receipt' = [receipt EXCEPT ![hash[d]] = status]
          /\ Return(d, hash[d])
       \/ /\ Throw(d, "waitForTransactionReceipt")
          /\ UNCHANGED receipt
    /\ UNCHANGED <<clientVars, laneVars, forceEOA, sponsoredVars, directVars,
                   firstCall>>

\* Variant: a reverted receipt restarts the regular flow instead of throwing.
DirectReceiptReturn_Retry(d) ==
    /\ pc[d] = "directReceipt"
    /\ \/ /\ receipt' = [receipt EXCEPT ![hash[d]] = "success"]
          /\ Return(d, hash[d])
          /\ UNCHANGED <<nFeeEst, firstCall>>
       \/ /\ receipt' = [receipt EXCEPT ![hash[d]] = "reverted"]
          /\ EnterRegularFlow(d)
          /\ UNCHANGED outcomeVars
       \/ /\ Throw(d, "waitForTransactionReceipt")
          /\ UNCHANGED <<receipt, nFeeEst, firstCall>>
    /\ UNCHANGED <<clientVars, laneVars, forceEOA, sponsoredVars, hash,
                   nGasEst, nDirect>>

\* waitForTransactionReceipt({hash}) returns a receipt or throws; a receipt
\* whose status is not 'success' makes sendTransaction throw
\* Error('Transaction failed').
DirectReceiptReturn(d) ==
    /\ pc[d] = "directReceipt"
    /\ \/ /\ receipt' = [receipt EXCEPT ![hash[d]] = "success"]
          /\ Return(d, hash[d])
       \/ /\ receipt' = [receipt EXCEPT ![hash[d]] = "reverted"]
          /\ Throw(d, "Transaction failed")
       \/ /\ Throw(d, "waitForTransactionReceipt")
          /\ UNCHANGED receipt
    /\ UNCHANGED <<clientVars, laneVars, forceEOA, sponsoredVars, directVars,
                   firstCall>>

----
Next ==
    \/ ClientInit
    \/ InitializeReturn
    \/ \E d \in Dispatches, force \in BOOLEAN : SendTransaction(d, force)
    \/ \E d \in Dispatches : TaskStart(d)
    \/ \E d \in Dispatches : NonceDelayElapsed(d)
    \/ \E d \in Dispatches : SponsoredSendReturn(d)
    \/ \E d \in Dispatches : RetryBackoffElapsed(d)
    \/ \E d \in Dispatches : RetrySendReturn(d)
    \/ \E d \in Dispatches : SponsoredReceiptReturn(d)
    \/ \E d \in Dispatches : EstimateFeesReturn(d)
    \/ \E d \in Dispatches : EstimateGasReturn(d)
    \/ \E d \in Dispatches : SignerSendReturn(d)
    \/ \E d \in Dispatches : DirectReceiptReturn(d)

Spec == Init /\ [][Next]_vars

\* Every awaited call of a dispatch eventually returns or throws, every
\* timer fires, and a chained callback whose predecessors have settled is
\* run.  When sendTransaction is called is up to the caller.
DispatchFairness ==
    \A d \in Dispatches :
        /\ WF_vars(TaskStart(d))
        /\ WF_vars(NonceDelayElapsed(d))
        /\ WF_vars(SponsoredSendReturn(d))
        /\ WF_vars(RetryBackoffElapsed(d))
        /\ WF_vars(RetrySendReturn(d))
        /\ WF_vars(SponsoredReceiptReturn(d))
        /\ WF_vars(EstimateFeesReturn(d))
        /\ WF_vars(EstimateGasReturn(d))
        /\ WF_vars(SignerSendReturn(d))
        /\ WF_vars(DirectReceiptReturn(d))

FairSpec == Spec /\ DispatchFairness

----
(***************************************************************************)
(* calculateGasFees.  A configured value is a set with at most one          *)
(* element: {} is an absent (undefined) field, {v} the number v.            *)
(***************************************************************************)
MaxFee == 2
MaxMultiplier == 3

Fees == 0..MaxFee
Multipliers == -1..MaxMultiplier

OptionalOf(S) == {{}} \cup {{v} : v \in S}

TheValue(o) == CHOOSE v \in o : TRUE

\* JavaScript's a || b on an optional number: b when a is undefined, NaN or 0.
OrElse(o, default) == IF o = {} \/ o = {0} THEN default ELSE TheValue(o)

Max(a, b) == IF a >= b THEN a ELSE b

DefaultPriorityFeeMultiplier == 2

calculateGasFees(cfg, maxFeePerGas, maxPriorityFeePerGas) ==
    LET priorityFeeMultiplier ==
            OrElse(cfg.priorityFeeMultiplier, DefaultPriorityFeeMultiplier)
        overrideMaxFeePerGas == OrElse(cfg.maxFeePerGas, maxFeePerGas)
        overrideMaxPriorityFeePerGas ==
            OrElse(cfg.maxPriorityFeePerGas, maxPriorityFeePerGas)
    IN  overrideMaxFeePerGas +
        overrideMaxPriorityFeePerGas * Max(0, priorityFeeMultiplier - 1)

FeeConfigs ==
    [priorityFeeMultiplier : OptionalOf(Multipliers),
     maxFeePerGas          : OptionalOf(Fees),
     maxPriorityFeePerGas  : OptionalOf(Fees)]

dispatchVars ==
    <<clientPc, config, gasSponsorshipManager, smartAccountClient, laneVars,
      pc, forceEOA, sponsoredVars, directVars, outcomeVars, receipt, firstCall>>

\* A client without sponsorship on which no transaction is dispatched.
DispatchAtRest ==
    /\ DispatchInit
    /\ config = [sponsorUrls |-> FALSE, privyCredentials |-> FALSE]

\* calculateGasFees has been called and awaits estimateFeesPerGas.
FeeInit ==
    /\ DispatchAtRest
    /\ fee \in {[pc |-> "estimateFeesPerGas", config |-> c] : c \in FeeConfigs}
    /\ lanes = AtRest
    /\ batch = AtRest
    /\ recovery = AtRest
    /\ signer = AtRest
    /\ signing = AtRest
    /\ walletAuth = AtRest
    /\ operation = AtRest
    /\ LaterAtRest

CalculateGasFeesReturn ==
    /\ fee.pc = "estimateFeesPerGas"
    /\ \E maxFeePerGas, maxPriorityFeePerGas \in Fees :
           fee' = [pc |-> "returned",
                   config |-> fee.config,
                   maxFeePerGas |-> maxFeePerGas,
                   maxPriorityFeePerGas |-> maxPriorityFeePerGas,
                   finalMaxFeePerGas |->
                       calculateGasFees(fee.config, maxFeePerGas,
                                        maxPriorityFeePerGas)]
    /\ UNCHANGED <<dispatchVars, lanes, batch, recovery, signer,
                   signing, walletAuth, operation, laterVars>>

\* estimateFeesPerGas rejects and calculateGasFees rejects with it.
CalculateGasFeesThrow ==
    /\ fee.pc = "estimateFeesPerGas"
    /\ fee' = [pc |-> "threw", config |-> fee.config]
    /\ UNCHANGED <<dispatchVars, lanes, batch, recovery, signer,
                   signing, walletAuth, operation, laterVars>>

FeeNext ==
    \/ CalculateGasFeesReturn
    \/ CalculateGasFeesThrow

FeeSpec == FeeInit /\ [][FeeNext]_vars

----
(***************************************************************************)
(* Two clients, each with the GasSponsorshipManager that its own           *)
(* setupGasSponsorship constructed for its wallet.  nonceQueue and         *)
(* pendingNonce are instance fields of the manager.                        *)
(***************************************************************************)
NumLaneTasks == 2

Managers == {"A", "B"}
LaneTasks == 1..NumLaneTasks

\* Variant: nonceQueue and pendingNonce are shared by all managers.
InstanceOf_Shared(m) == "A"

\* The object that holds the nonceQueue and pendingNonce used by manager m.
InstanceOf(m) == m

LanesInit ==
    /\ DispatchAtRest
    /\ fee = AtRest
    /\ lanes = [pc |-> "run",
                init |-> [m \in Managers |-> "constructed"],
                nonceQueue |-> [m \in Managers |-> <<>>],
                pendingNonce |-> [m \in Managers |-> 0],
                task |-> [x \in Managers \X LaneTasks |-> "idle"]]
    /\ batch = AtRest
    /\ recovery = AtRest
    /\ signer = AtRest
    /\ signing = AtRest
    /\ walletAuth = AtRest
    /\ operation = AtRest
    /\ LaterAtRest

\* The lanes after these updates of manager m's task t, queue and counter.
LaneUpdate(m, t, state, queue, nonce) ==
    [lanes EXCEPT !.task[<<m, t>>] = state,
                  !.nonceQueue[InstanceOf(m)] = queue,
                  !.pendingNonce[InstanceOf(m)] = nonce]

LaneQueue(m) == lanes.nonceQueue[InstanceOf(m)]

LaneNonce(m) == lanes.pendingNonce[InstanceOf(m)]

\* this.smartAccountClient of manager m is set.
LaneInitialized(m) == lanes.init[InstanceOf(m)] = "ready"

\* GasSponsorshipManager.initialize of manager m settles: it has set
\* smartAccountClient and returns true, or caught a failure and returns
\* false.
LaneInitializeReturn(m) ==
    /\ lanes.init[InstanceOf(m)] = "constructed"
    /\ \E ok \in BOOLEAN :
         lanes' = [lanes EXCEPT !.init[InstanceOf(m)] =
                                   IF ok THEN "ready" ELSE "failed"]
    /\ UNCHANGED <<dispatchVars, fee, batch, recovery, signer,
                   signing, walletAuth, operation, laterVars>>

\* sendSponsoredTransaction is called on manager m: it returns null when
\* smartAccountClient is not set, otherwise the callback is chained.
LaneEnqueue(m, t) ==
    /\ lanes.task[<<m, t>>] = "idle"
    /\ \A u \in 1..(t - 1) : lanes.task[<<m, u>>] # "idle"
    /\ lanes' = IF LaneInitialized(m)
                  THEN LaneUpdate(m, t, "queued",
                                  Append(LaneQueue(m), <<m, t>>), LaneNonce(m))
                  ELSE LaneUpdate(m, t, "returnedNull", LaneQueue(m),
                                  LaneNonce(m))
    /\ UNCHANGED <<dispatchVars, fee, batch, recovery, signer,
                   signing, walletAuth, operation, laterVars>>

\* The chained callback starts; it sleeps first when pendingNonce > 0.
LaneTaskStart(m, t) ==
    /\ lanes.task[<<m, t>>] = "queued"
    /\ LaneQueue(m) # <<>>
    /\ Head(LaneQueue(m)) = <<m, t>>
    /\ lanes' = LaneUpdate(m, t,
                           IF LaneNonce(m) > 0 THEN "nonceDelay"
                                               ELSE "sponsoredSend",
                           LaneQueue(m), LaneNonce(m))
    /\ UNCHANGED <<dispatchVars, fee, batch, recovery, signer,
                   signing, walletAuth, operation, laterVars>>

\* One of the two setTimeout timers of the callback fires.
LaneTimerElapsed(m, t) ==
    /\ lanes.task[<<m, t>>] \in {"nonceDelay", "retryBackoff"}
    /\ lanes' = LaneUpdate(m, t,
                           IF lanes.task[<<m, t>>] = "nonceDelay"
                             THEN "sponsoredSend" ELSE "retrySend",
                           LaneQueue(m), LaneNonce(m))
    /\ UNCHANGED <<dispatchVars, fee, batch, recovery, signer,
                   signing, walletAuth, operation, laterVars>>

\* A submission call returns a hash: pendingNonce++ and resolve(hash).
LaneSendReturn(m, t) ==
    /\ lanes.task[<<m, t>>] \in SponsoredSubmitStates
    /\ lanes' = LaneUpdate(m, t,
                           IF lanes.task[<<m, t>>] = "retrySend"
                             THEN "resolvedHashOnRetry" ELSE "resolvedHash",
                           Tail(LaneQueue(m)), LaneNonce(m) + 1)
    /\ UNCHANGED <<dispatchVars, fee, batch, recovery, signer,
                   signing, walletAuth, operation, laterVars>>

\* A submission call throws.  An Error with message msg: one retry after a
\* nonce error on the first attempt, resolve(null) otherwise.  A value whose
\* message cannot be searched (null, undefined, a message that is neither a
\* string nor undefined): the retry's catch resolves null without looking at
\* it, but the test in the catch of the first attempt throws, the callback
\* rejects and with it nonceQueue; resolve is never called and the
\* callbacks chained behind never run.
LaneSendThrow(m, t) ==
    /\ lanes.task[<<m, t>>] \in SponsoredSubmitStates
    /\ \/ \E msg \in ErrorMessages :
            lanes' = IF lanes.task[<<m, t>>] = "sponsoredSend"
                        /\ IsNonceError(msg)
                       THEN LaneUpdate(m, t, "retryBackoff", LaneQueue(m),
                                       LaneNonce(m))
                       ELSE LaneUpdate(m, t,
                                       IF lanes.task[<<m, t>>] = "retrySend"
                                         THEN "resolvedNullOnRetry"
                                         ELSE "resolvedNull",
                                       Tail(LaneQueue(m)), LaneNonce(m))
       \/ lanes' = IF lanes.task[<<m, t>>] = "sponsoredSend"
                     THEN LaneUpdate(m, t, "catchThrew", LaneQueue(m),
                                     LaneNonce(m))
                     ELSE LaneUpdate(m, t, "resolvedNullOnRetry",
                                     Tail(LaneQueue(m)), LaneNonce(m))
    /\ UNCHANGED <<dispatchVars, fee, batch, recovery, signer,
                   signing, walletAuth, operation, laterVars>>

LanesNext ==
    \E m \in Managers :
        \/ LaneInitializeReturn(m)
        \/ \E t \in LaneTasks :
              \/ LaneEnqueue(m, t)
              \/ LaneTaskStart(m, t)
              \/ LaneTimerElapsed(m, t)
              \/ LaneSendReturn(m, t)
              \/ LaneSendThrow(m, t)

LanesSpec == LanesInit /\ [][LanesNext]_vars

\* Scheduling: a chained callback whose predecessor has settled is run by
\* the event loop, a setTimeout timer fires, and every call of
\* smartAccountClient.sendTransaction returns or throws.
LanesFairness ==
    \A m \in Managers : \A t \in LaneTasks :
        /\ WF_vars(LaneTaskStart(m, t))
        /\ WF_vars(LaneTimerElapsed(m, t))
        /\ WF_vars(LaneSendReturn(m, t) \/ LaneSendThrow(m, t))

FairLanesSpec == LanesSpec /\ LanesFairness

----
(***************************************************************************)
(* sendBatchTransactions: a loop that awaits sendTransaction (estimate     *)
(* fees, estimate gas, submit through the session signer, wait for the     *)
(* receipt) for one request after the other.                               *)
(***************************************************************************)
MaxBatch == 3
NumBatchHashes == 2

BatchSizes == 1..MaxBatch
BatchHashes == 1..NumBatchHashes

\* The external calls of sendTransaction, in program order.
BatchCalls ==
    <<"estimateFeesPerGas", "estimateGas", "sessionSigner.sendTransaction",
      "waitForTransactionReceipt">>

\* sendBatchTransactions has been called with n transactions; the loop, if
\* it is entered, has called sendTransaction for the first of them.
BatchInit ==
    /\ DispatchAtRest
    /\ fee = AtRest
    /\ lanes = AtRest
    /\ batch \in {[pc |-> BatchCalls[1], n |-> n, tx |-> 1, hashes |-> <<>>,
                   pending |-> 0, trace |-> <<[tx |-> 1, call |-> BatchCalls[1]]>>,
                   error |-> [position |-> 0, cause |-> "none"]] :
                  n \in BatchSizes}
    /\ recovery = AtRest
    /\ signer = AtRest
    /\ signing = AtRest
    /\ walletAuth = AtRest
    /\ operation = AtRest
    /\ LaterAtRest

\* The batch is awaiting one of the calls of sendTransaction.
BatchAwaiting == \E k \in 1..Len(BatchCalls) : batch.pc = BatchCalls[k]

\* The call that sendTransaction makes when call c has returned.
BatchCallAfter(c) ==
    BatchCalls[(CHOOSE k \in 1..Len(BatchCalls) : BatchCalls[k] = c) + 1]

\* Variant: the error reports the number of hashes collected so far.
BatchThrows_CountsHashes(cause) ==
    [batch EXCEPT !.pc = "threw",
                  !.error = [position |-> Len(batch.hashes), cause |-> cause]]

\* sendTransaction rejected; the catch block of the loop throws
\* `Batch failed at transaction ${hashes.length + 1}: ${error}`.
BatchThrows(cause) ==
    [batch EXCEPT !.pc = "threw",
                  !.error = [position |-> Len(batch.hashes) + 1,
                             cause |-> cause]]

\* The awaited call of the current transaction throws.
BatchCallThrows ==
    /\ BatchAwaiting
    /\ batch' = BatchThrows(batch.pc)
    /\ UNCHANGED <<dispatchVars, fee, lanes, recovery, signer,
                   signing, walletAuth, operation, laterVars>>

\* estimateFeesPerGas or estimateGas returns: the next call is made.
BatchEstimateReturn ==
    /\ batch.pc \in {"estimateFeesPerGas", "estimateGas"}
    /\ batch' = [batch EXCEPT
                   !.pc = BatchCallAfter(@),
                   !.trace = Append(@, [tx |-> batch.tx,
                                        call |-> BatchCallAfter(batch.pc)])]
    /\ UNCHANGED <<dispatchVars, fee, lanes, recovery, signer,
                   signing, walletAuth, operation, laterVars>>

\* sessionSigner.sendTransaction returns a hash; the receipt is awaited.
BatchSignerSendReturn ==
    /\ batch.pc = "sessionSigner.sendTransaction"
    /\ \E h \in BatchHashes :
         batch' = [batch EXCEPT
                     !.pc = BatchCalls[4],
                     !.pending = h,
                     !.trace = Append(@, [tx |-> batch.tx,
                                          call |-> BatchCalls[4]])]
    /\ UNCHANGED <<dispatchVars, fee, lanes, recovery, signer,
                   signing, walletAuth, operation, laterVars>>

\* The receipt has status success: the hash is pushed and the loop goes on
\* to the next transaction, or returns the hashes after the last one.
BatchReceiptSuccess ==
    /\ batch.pc = "waitForTransactionReceipt"
    /\ batch' = IF batch.tx = batch.n
                  THEN [batch EXCEPT
                          !.pc = "returned",
                          !.hashes = Append(@, batch.pending),
                          !.trace = Append(@, [tx |-> batch.tx,
                                               call |-> "confirmed"])]
                  ELSE [batch EXCEPT
                          !.pc = BatchCalls[1],
                          !.tx = @ + 1,
                          !.hashes = Append(@, batch.pending),
                          !.trace = Append(Append(@,
                                       [tx |-> batch.tx, call |-> "confirmed"]),
                                       [tx |-> batch.tx + 1,
                                        call |-> BatchCalls[1]])]
    /\ UNCHANGED <<dispatchVars, fee, lanes, recovery, signer,
                   signing, walletAuth, operation, laterVars>>

\* The receipt has another status: sendTransaction throws
\* 'Transaction failed'.
BatchReceiptReverted ==
    /\ batch.pc = "waitForTransactionReceipt"
    /\ batch' = BatchThrows("Transaction failed")
    /\ UNCHANGED <<dispatchVars, fee, lanes, recovery, signer,
                   signing, walletAuth, operation, laterVars>>

BatchNext ==
    \/ BatchCallThrows
    \/ BatchEstimateReturn
    \/ BatchSignerSendReturn
    \/ BatchReceiptSuccess
    \/ BatchReceiptReverted

BatchSpec == BatchInit /\ [][BatchNext]_vars

----
(***************************************************************************)
(* Identifier recovery: createJob with getJobIdFromTx, and getMemoId.      *)
(* Addresses, log data and decoded fields are strings, written as          *)
(* sequences of characters.                                                *)
(***************************************************************************)
MaxLogs == 2

contractAddress == <<"0", "x", "A", "b">>

LogAddresses ==
    {<<"0", "x", "A", "b">>, <<"0", "x", "a", "B">>, <<"0", "x", "c", "d">>}

\* The data of a log: a number in hex, or "0x", the data of an event that
\* has no parameter outside its topics.
LogData == {<<"0", "x", "2", "a">>, <<"0", "x", "0", "7">>, <<"0", "x">>}

\* String(undefined), what parseInt sees for a missing field.
UndefinedText == <<"u", "n", "d", "e", "f", "i", "n", "e", "d">>

\* What decodeEventLog does with the data and topics of a log: it throws,
\* or returns an event without args, with args that have no memoId, or
\* with args.memoId.
DecodedEvents ==
    {[threw |-> TRUE, hasArgs |-> FALSE, memoId |-> UndefinedText],
     [threw |-> FALSE, hasArgs |-> FALSE, memoId |-> UndefinedText],
     [threw |-> FALSE, hasArgs |-> TRUE, memoId |-> UndefinedText],
     [threw |-> FALSE, hasArgs |-> TRUE, memoId |-> <<"1", "7">>]}

Logs == [address : LogAddresses, data : LogData, event : DecodedEvents]

RECURSIVE SeqsUpTo(_, _)
SeqsUpTo(S, n) ==
    IF n = 0 THEN {<<>>}
    ELSE LET shorter == SeqsUpTo(S, n - 1)
         IN  shorter \cup {Append(s, x) : s \in shorter, x \in S}

Receipts == SeqsUpTo(Logs, MaxLogs)

\* Variant: the character is kept as it is.
ToLowerChar_Identity(c) == c

ToLowerChar(c) ==
    CASE c = "A" -> "a" [] c = "B" -> "b" [] c = "C" -> "c"
      [] c = "D" -> "d" [] c = "E" -> "e" [] c = "F" -> "f"
      [] c = "X" -> "x" [] OTHER -> c

toLowerCase(s) == [i \in 1..Len(s) |-> ToLowerChar(s[i])]

\* receipt.logs.find(...): the index of the first log of the contract
\* address, 0 when find returns undefined.
FindContractLog(logs) ==
    LET found == {i \in 1..Len(logs) :
                     toLowerCase(logs[i].address) = toLowerCase(contractAddress)}
    IN  IF found = {} THEN 0
        ELSE CHOOSE i \in found : \A j \in found : i <= j

HexDigitValue(c) ==
    CASE c = "0" -> 0 [] c = "1" -> 1 [] c = "2" -> 2 [] c = "3" -> 3
      [] c = "4" -> 4 [] c = "5" -> 5 [] c = "6" -> 6 [] c = "7" -> 7
      [] c = "8" -> 8 [] c = "9" -> 9
      [] c \in {"a", "A"} -> 10 [] c \in {"b", "B"} -> 11
      [] c \in {"c", "C"} -> 12 [] c \in {"d", "D"} -> 13
      [] c \in {"e", "E"} -> 14 [] c \in {"f", "F"} -> 15

\* The number that one or more hex digits spell.
RECURSIVE HexDigitsValue(_)
HexDigitsValue(s) ==
    IF Len(s) = 1 THEN HexDigitValue(s[1])
    ELSE 16 * HexDigitsValue(SubSeq(s, 1, Len(s) - 1)) + HexDigitValue(s[Len(s)])

\* fromHex(hex, "number") of a 0x-prefixed hex string is
\* Number(BigInt(hex)): the number the digits spell, and a SyntaxError
\* thrown by BigInt when no digit follows the prefix.
fromHex(hex) ==
    LET digits == SubSeq(hex, 3, Len(hex))
    IN  IF digits = <<>> THEN [threw |-> TRUE, value |-> 0]
        ELSE [threw |-> FALSE, value |-> HexDigitsValue(digits)]

DecimalDigits == {"0", "1", "2", "3", "4", "5", "6", "7", "8", "9"}

\* The longest prefix of s made of decimal digits.
RECURSIVE LeadingDigits(_)
LeadingDigits(s) ==
    IF s = <<>> \/ s[1] \notin DecimalDigits THEN <<>>
    ELSE <<s[1]>> \o LeadingDigits(Tail(s))

RECURSIVE DecimalValue(_)
DecimalValue(s) ==
    IF s = <<>> THEN 0
    ELSE 10 * DecimalValue(SubSeq(s, 1, Len(s) - 1)) + HexDigitValue(s[Len(s)])

\* parseInt of a string: the number its leading digits spell, NaN if none.
parseInt(s) ==
    IF LeadingDigits(s) = <<>> THEN [type |-> "NaN", value |-> 0]
    ELSE [type |-> "number", value |-> DecimalValue(LeadingDigits(s))]

NoLogsMessage == "Failed to get contract logs"
NoArgsMessage == "Failed to decode event logs"
CreateJobPrefix == "Failed to create job: "

NoValue == [type |-> "none", value |-> 0]

\* The outcome of getJobIdFromTx for a receipt with these logs: it throws
\* when no log is from the contract and when fromHex throws on the data of
\* the one that is found.
getJobIdFromTx(logs) ==
    LET contractLog == FindContractLog(logs)
    IN  IF contractLog = 0
          THEN [threw |-> TRUE, message |-> <<NoLogsMessage>>, value |-> NoValue]
        ELSE IF fromHex(logs[contractLog].data).threw
          THEN [threw |-> TRUE, message |-> <<"fromHex">>, value |-> NoValue]
        ELSE [threw |-> FALSE, message |-> <<>>,
              value |-> [type |-> "number",
                         value |-> fromHex(logs[contractLog].data).value]]

\* Variant: an event without args is read like any other.
getMemoId_ReadsArgsAnyway(logs) ==
    LET contractLog == FindContractLog(logs)
    IN  IF contractLog = 0
          THEN [threw |-> TRUE, message |-> <<NoLogsMessage>>, value |-> NoValue]
        ELSE IF logs[contractLog].event.threw
          THEN [threw |-> TRUE, message |-> <<"decodeEventLog">>,
                value |-> NoValue]
        ELSE [threw |-> FALSE, message |-> <<>>,
              value |-> parseInt(logs[contractLog].event.memoId)]

\* The outcome of getMemoId for a receipt with these logs.
getMemoId(logs) ==
    LET contractLog == FindContractLog(logs)
    IN  IF contractLog = 0
          THEN [threw |-> TRUE, message |-> <<NoLogsMessage>>, value |-> NoValue]
        ELSE IF logs[contractLog].event.threw
          THEN [threw |-> TRUE, message |-> <<"decodeEventLog">>,
                value |-> NoValue]
        ELSE IF ~logs[contractLog].event.hasArgs
          THEN [threw |-> TRUE, message |-> <<NoArgsMessage>>, value |-> NoValue]
        ELSE [threw |-> FALSE, message |-> <<>>,
              value |-> parseInt(logs[contractLog].event.memoId)]

\* createJob has been called and awaits sendTransaction, or getMemoId has
\* been called with a hash and awaits getTransactionReceipt.
RecoveryInit ==
    /\ DispatchAtRest
    /\ fee = AtRest
    /\ lanes = AtRest
    /\ batch = AtRest
    /\ recovery \in
         {[pc |-> "sendTransaction", op |-> "createJob", txHash |-> NoHash,
           logs |-> <<>>, message |-> <<>>, value |-> NoValue]}
         \cup
         {[pc |-> "getTransactionReceipt", op |-> "getMemoId", txHash |-> h,
           logs |-> <<>>, message |-> <<>>, value |-> NoValue] : h \in Hashes}
    /\ signer = AtRest
    /\ signing = AtRest
    /\ walletAuth = AtRest
    /\ operation = AtRest
    /\ LaterAtRest

\* The message of the error that the operation throws for a cause: createJob
\* wraps whatever its try block threw.
RecoveryMessage(op, cause) ==
    IF op = "createJob" THEN <<CreateJobPrefix>> \o cause ELSE cause

\* The operation ends with the outcome of its recovery function.
RecoveryEnds(logs, outcome) ==
    [recovery EXCEPT
       !.pc = IF outcome.threw THEN "threw" ELSE "returned",
       !.logs = logs,
       !.message = IF outcome.threw
                     THEN RecoveryMessage(recovery.op, outcome.message)
                     ELSE <<>>,
       !.value = outcome.value]

\* sendTransaction returns the hash of a confirmed transaction to createJob.
CreateJobSendReturn ==
    /\ recovery.pc = "sendTransaction"
    /\ \E h \in Hashes :
         recovery' = [recovery EXCEPT !.pc = "getTransactionReceipt",
                                      !.txHash = h]
    /\ UNCHANGED <<dispatchVars, fee, lanes, batch, signer,
                   signing, walletAuth, operation, laterVars>>

\* sendTransaction or getTransactionReceipt throws.
RecoveryCallThrows ==
    /\ recovery.pc \in {"sendTransaction", "getTransactionReceipt"}
    /\ recovery' = [recovery EXCEPT
                      !.pc = "threw",
                      !.message = RecoveryMessage(recovery.op, <<recovery.pc>>)]
    /\ UNCHANGED <<dispatchVars, fee, lanes, batch, signer,
                   signing, walletAuth, operation, laterVars>>

\* getTransactionReceipt returns to getJobIdFromTx, called by createJob.
GetJobIdReceiptReturn ==
    /\ recovery.pc = "getTransactionReceipt"
    /\ recovery.op = "createJob"
    /\ \E logs \in Receipts :
         recovery' = RecoveryEnds(logs, getJobIdFromTx(logs))
    /\ UNCHANGED <<dispatchVars, fee, lanes, batch, signer,
                   signing, walletAuth, operation, laterVars>>

\* getTransactionReceipt returns to getMemoId.
GetMemoIdReceiptReturn ==
    /\ recovery.pc = "getTransactionReceipt"
    /\ recovery.op = "getMemoId"
    /\ \E logs \in Receipts :
         recovery' = RecoveryEnds(logs, getMemoId(logs))
    /\ UNCHANGED <<dispatchVars, fee, lanes, batch, signer,
                   signing, walletAuth, operation, laterVars>>

RecoveryNext ==
    \/ CreateJobSendReturn
    \/ RecoveryCallThrows
    \/ GetJobIdReceiptReturn
    \/ GetMemoIdReceiptReturn

RecoverySpec == RecoveryInit /\ [][RecoveryNext]_vars

----
(***************************************************************************)
(* PrivySessionSigner.sendTransaction: the Privy SDK first, the direct     *)
(* API with an authorization signature as fallback.  The configured key    *)
(* is a string: an optional 'wallet-auth:' tag followed by a body.         *)
(***************************************************************************)
KeyTags == {"", "wallet-auth:"}

\* Bodies: nothing, a PEM private key, the base64 of a sec1 DER private key,
\* and text that is neither.
KeyBodies == {"", "pem", "base64der", "garbage"}

SignerKeys == [tag : KeyTags, body : KeyBodies]

\* !sessionSignerPrivateKey: the key is the empty string.
KeyIsEmpty(key) == key.tag = "" /\ key.body = ""

\* A tagged key is decoded from base64 DER by crypto.createPrivateKey, any
\* other key is given to sign.sign as PEM; either throws on other material.
KeyParses(key) ==
    IF key.tag = "wallet-auth:" THEN key.body = "base64der"
                                ELSE key.body = "pem"

\* generateAuthorizationSignature returns a signature (TRUE), or undefined
\* (FALSE) when anything inside its try block threw: extractPrivateKey on
\* an empty key, createPrivateKey or sign.sign on an unparseable one.
generateAuthorizationSignature(key) == ~KeyIsEmpty(key) /\ KeyParses(key)

\* What fetch settles with: an ok response with a hash, a response that is
\* not ok (for an authorization error of the service, or for another
\* reason), an ok response without a hash, a rejected promise.
SignerResponses == {"hash", "notOk", "unauthorized", "noHash", "rejected"}

\* The error of the SDK variant of sendTransaction for an authorization
\* error: 'Authorization failed. Ensure:' and the three hints, then the
\* message of the error.
AuthorizationFailed == "Authorization failed. Ensure: 1. 2. 3. Error:"

\* A signer has been constructed.  The constructor called initPrivyClient
\* without awaiting it: that call (constructorInit) is at its import,
\* privyClient is not set, and sendTransaction may be called at any time.
SignerInit ==
    /\ DispatchAtRest
    /\ fee = AtRest
    /\ lanes = AtRest
    /\ batch = AtRest
    /\ recovery = AtRest
    /\ signer \in {[pc |-> "constructed", key |-> k,
                    constructorInit |-> "import", privyClient |-> FALSE,
                    walletApi |-> FALSE, requests |-> <<>>,
                    directAPI |-> FALSE, response |-> "none",
                    error |-> "none"] : k \in SignerKeys}
    /\ signing = AtRest
    /\ walletAuth = AtRest
    /\ operation = AtRest
    /\ LaterAtRest

\* sendTransactionDirectAPI on signer state s up to its fetch: the
\* signature is generated, the header added if there is one, and fetch is
\* called.
SignerDirectAPI(s) ==
    LET authSignature == generateAuthorizationSignature(s.key)
    IN  [s EXCEPT !.pc = "fetch", !.directAPI = TRUE,
                  !.requests = Append(@, [via |-> "fetch",
                                          signed |-> authSignature])]

\* The try block of sendTransaction on signer state s: the SDK call when
\* walletApi is available; otherwise its throw is caught and the direct API
\* is used.
SignerTrySend(s) ==
    IF s.walletApi
      THEN [s EXCEPT !.pc = "sdkSend",
                     !.requests = Append(@, [via |-> "sdk", signed |-> FALSE])]
      ELSE SignerDirectAPI(s)

\* The import of the constructor's initPrivyClient resolves and the client
\* is constructed: privyClient is set, whatever sendTransaction is doing and
\* whatever it had set before.
ConstructorInitReturn ==
    /\ signer.pc # "rest"
    /\ signer.constructorInit = "import"
    /\ ~KeyIsEmpty(signer.key)
    /\ \E w \in BOOLEAN :
         signer' = [signer EXCEPT !.constructorInit = "done",
                                  !.privyClient = TRUE,
                                  !.walletApi = w]
    /\ UNCHANGED <<dispatchVars, fee, lanes, batch, recovery,
                   signing, walletAuth, operation, laterVars>>

\* The constructor's initPrivyClient throws (import, empty key or
\* PrivyClient constructor); nothing awaits it and privyClient is left as it
\* is.
ConstructorInitThrows ==
    /\ signer.pc # "rest"
    /\ signer.constructorInit = "import"
    /\ signer' = [signer EXCEPT !.constructorInit = "threw"]
    /\ UNCHANGED <<dispatchVars, fee, lanes, batch, recovery,
                   signing, walletAuth, operation, laterVars>>

\* sendTransaction is called: with privyClient set it goes to the try block,
\* otherwise it awaits an initPrivyClient of its own.
SignerSendTransaction ==
    /\ signer.pc = "constructed"
    /\ signer' = IF signer.privyClient
                   THEN SignerTrySend(signer)
                   ELSE [signer EXCEPT !.pc = "initPrivyClient"]
    /\ UNCHANGED <<dispatchVars, fee, lanes, batch, recovery,
                   signing, walletAuth, operation, laterVars>>

\* initPrivyClient throws: the awaited import failed, whatever the key;
\* or, the import done, extractPrivateKey rejected an empty key or, with a
\* key, the PrivyClient constructor failed.
InitPrivyClientThrows ==
    /\ signer.pc = "initPrivyClient"
    /\ \E cause \in {"import", "PrivyClient"} :
         signer' = [signer EXCEPT
                      !.pc = "threw",
                      !.error = IF cause = "import" THEN cause
                                ELSE IF KeyIsEmpty(signer.key)
                                  THEN "Session signer private key is required"
                                  ELSE cause]
    /\ UNCHANGED <<dispatchVars, fee, lanes, batch, recovery,
                   signing, walletAuth, operation, laterVars>>

\* The initPrivyClient that sendTransaction awaits constructs the client
\* and sets privyClient, replacing a client the constructor's call set in
\* the meantime.
InitPrivyClientReturn ==
    /\ signer.pc = "initPrivyClient"
    /\ ~KeyIsEmpty(signer.key)
    /\ \E w \in BOOLEAN :
         signer' = [signer EXCEPT !.pc = "initialized",
                                  !.privyClient = TRUE,
                                  !.walletApi = w]
    /\ UNCHANGED <<dispatchVars, fee, lanes, batch, recovery,
                   signing, walletAuth, operation, laterVars>>

\* sendTransaction resumes after its await of initPrivyClient and enters the
\* try block with the privyClient that is set by then.
SignerResume ==
    /\ signer.pc = "initialized"
    /\ signer' = SignerTrySend(signer)
    /\ UNCHANGED <<dispatchVars, fee, lanes, batch, recovery,
                   signing, walletAuth, operation, laterVars>>

\* walletApi.ethereum.sendTransaction returns result.hash.
SdkSendReturn ==
    /\ signer.pc = "sdkSend"
    /\ signer' = [signer EXCEPT !.pc = "returned"]
    /\ UNCHANGED <<dispatchVars, fee, lanes, batch, recovery,
                   signing, walletAuth, operation, laterVars>>

\* Variant: what walletApi.ethereum.sendTransaction throws is thrown to the
\* caller; the direct API is used only when the SDK is unavailable.
SdkSendThrows_Propagates ==
    /\ signer.pc = "sdkSend"
    /\ signer' = [signer EXCEPT !.pc = "threw", !.error = "sdk"]
    /\ UNCHANGED <<dispatchVars, fee, lanes, batch, recovery,
                   signing, walletAuth, operation, laterVars>>

\* walletApi.ethereum.sendTransaction throws: the catch block calls the
\* direct API; privyClient.walletApi stays as it is.
SdkSendThrows ==
    /\ signer.pc = "sdkSend"
    /\ signer' = SignerDirectAPI(signer)
    /\ UNCHANGED <<dispatchVars, fee, lanes, batch, recovery,
                   signing, walletAuth, operation, laterVars>>

\* fetch settles: a hash in an ok response is returned, anything else throws.
FetchReturn ==
    /\ signer.pc = "fetch"
    /\ \E response \in SignerResponses :
         signer' = [signer EXCEPT
                      !.pc = IF response = "hash" THEN "returned" ELSE "threw",
                      !.response = response,
                      !.error = CASE response = "hash" -> "none"
                                  [] response \in {"notOk", "unauthorized"} ->
                                        "Privy transaction failed"
                                  [] response = "noHash" ->
                                        "Invalid response from Privy API"
                                  [] OTHER -> "fetch"]
    /\ UNCHANGED <<dispatchVars, fee, lanes, batch, recovery,
                   signing, walletAuth, operation, laterVars>>

SignerNext ==
    \/ ConstructorInitReturn
    \/ ConstructorInitThrows
    \/ SignerSendTransaction
    \/ InitPrivyClientThrows
    \/ InitPrivyClientReturn
    \/ SignerResume
    \/ SdkSendReturn
    \/ SdkSendThrows
    \/ FetchReturn

SignerSpec == SignerInit /\ [][SignerNext]_vars

----
(***************************************************************************)
(* generateAuthorizationSignature: the payload is canonicalized by         *)
(* sortObject and JSON.stringify and signed with the configured key.       *)
(*                                                                         *)
(* A JSON value is a record [t, s, keys, items]: a scalar has its text in  *)
(* s, an array its elements in items, an object its property names in keys *)
(* and their values in items, both in the order in which JavaScript        *)
(* enumerates the properties.  Texts are sequences of characters.          *)
(***************************************************************************)
MaxWidth == 2

Scalar(text) == [t |-> "scalar", s |-> text, keys |-> <<>>, items |-> <<>>]

Array(items) == [t |-> "array", s |-> <<>>, keys |-> <<>>, items |-> items]

EmptyObject == [t |-> "object", s |-> <<>>, keys |-> <<>>, items |-> <<>>]

\* The position of the character in code-unit order.
CharCode(c) ==
    CASE c \in DecimalDigits -> 48 + HexDigitValue(c)
      [] c = "-" -> 45
      [] c = "U" -> 85
      [] c = "a" -> 97 [] c = "b" -> 98 [] c = "d" -> 100 [] c = "e" -> 101
      [] c = "h" -> 104 [] c = "i" -> 105 [] c = "l" -> 108 [] c = "m" -> 109
      [] c = "n" -> 110 [] c = "o" -> 111 [] c = "p" -> 112 [] c = "r" -> 114 [] c = "s" -> 115
      [] c = "t" -> 116 [] c = "u" -> 117 [] c = "v" -> 118 [] c = "y" -> 121

\* a < b as Array.prototype.sort compares strings by default.
RECURSIVE StringLess(_, _)
StringLess(a, b) ==
    IF b = <<>> THEN FALSE
    ELSE IF a = <<>> THEN TRUE
    ELSE IF a[1] # b[1] THEN CharCode(a[1]) < CharCode(b[1])
    ELSE StringLess(Tail(a), Tail(b))

\* The property name is an array index: JavaScript enumerates such
\* properties first, in ascending numeric order.
IsArrayIndex(key) ==
    /\ key # <<>>
    /\ \A i \in 1..Len(key) : key[i] \in DecimalDigits
    /\ key[1] = "0" => Len(key) = 1

\* Property a is enumerated before property b when b is added to an object
\* that has a.
EnumeratedBefore(a, b) ==
    IF IsArrayIndex(b)
      THEN IsArrayIndex(a) /\ DecimalValue(a) < DecimalValue(b)
      ELSE TRUE

\* obj[key] = value.
SetProperty(obj, key, value) ==
    IF \E i \in 1..Len(obj.keys) : obj.keys[i] = key
      THEN LET i == CHOOSE j \in 1..Len(obj.keys) : obj.keys[j] = key
           IN  [obj EXCEPT !.items[i] = value]
      ELSE LET before == {i \in 1..Len(obj.keys) :
                             EnumeratedBefore(obj.keys[i], key)}
               n == Cardinality(before)
           IN  [obj EXCEPT
                  !.keys = SubSeq(@, 1, n) \o <<key>> \o SubSeq(@, n + 1, Len(@)),
                  !.items = SubSeq(@, 1, n) \o <<value>> \o
                            SubSeq(@, n + 1, Len(@))]

\* The object that an object literal or JSON.parse builds from the
\* properties <<key, value>> listed in entries.
RECURSIVE FromEntries(_)
FromEntries(entries) ==
    IF entries = <<>> THEN EmptyObject
    ELSE LET last == entries[Len(entries)]
         IN  SetProperty(FromEntries(SubSeq(entries, 1, Len(entries) - 1)),
                         last[1], last[2])

\* Object.keys(obj).sort(): the property names in ascending string order.
RECURSIVE SortedKeys(_)
SortedKeys(keys) ==
    IF keys = {} THEN <<>>
    ELSE LET first == CHOOSE k \in keys :
                         \A other \in keys \ {k} : StringLess(k, other)
         IN  <<first>> \o SortedKeys(keys \ {first})

\* obj[key] of an object that has the property.
GetProperty(obj, key) ==
    obj.items[CHOOSE i \in 1..Len(obj.keys) : obj.keys[i] = key]

\* Variant: the properties of the object are sorted, the values they hold
\* are left as they are.
sortObject_Shallow(obj) ==
    IF obj.t # "object" THEN obj
    ELSE LET keys == SortedKeys({obj.keys[i] : i \in 1..Len(obj.keys)})
         IN  FromEntries([i \in 1..Len(keys) |->
                             <<keys[i], GetProperty(obj, keys[i])>>])

RECURSIVE sortObject(_)
RECURSIVE SortInto(_, _, _)
\* The forEach of sortObject: sorted[key] = sortObject(obj[key]) for the
\* keys in the given order.
SortInto(sorted, obj, keys) ==
    IF keys = <<>> THEN sorted
    ELSE SortInto(SetProperty(sorted, keys[1],
                              sortObject(GetProperty(obj, keys[1]))),
                  obj, Tail(keys))

sortObject(obj) ==
    CASE obj.t = "scalar" -> obj
      [] obj.t = "array" ->
            Array([i \in 1..Len(obj.items) |-> sortObject(obj.items[i])])
      [] obj.t = "object" ->
            SortInto(EmptyObject, obj,
                     SortedKeys({obj.keys[i] : i \in 1..Len(obj.keys)}))

RECURSIVE stringify(_)
RECURSIVE StringifyItems(_, _, _)
\* The elements from position i on, separated by commas, each preceded by
\* its quoted property name and a colon when the value is an object.
StringifyItems(value, i, named) ==
    IF i > Len(value.items) THEN <<>>
    ELSE (IF i > 1 THEN <<",">> ELSE <<>>)
         \o (IF named THEN <<"\"">> \o value.keys[i] \o <<"\"", ":">> ELSE <<>>)
         \o stringify(value.items[i])
         \o StringifyItems(value, i + 1, named)

\* JSON.stringify of a value, as a sequence of characters.
stringify(value) ==
    CASE value.t = "scalar" -> value.s
      [] value.t = "array" -> <<"[">> \o StringifyItems(value, 1, FALSE) \o <<"]">>
      [] value.t = "object" -> <<"{">> \o StringifyItems(value, 1, TRUE) \o <<"}">>

\* The first position from i on that holds one of the stop characters, or
\* the position after the text.
ScanTo(chars, i, stops) ==
    LET hits == {j \in i..Len(chars) : chars[j] \in stops}
    IN  IF hits = {} THEN Len(chars) + 1
        ELSE CHOOSE j \in hits : \A k \in hits : j <= k

RECURSIVE ParseValue(_, _)
RECURSIVE ParseMembers(_, _, _)
RECURSIVE ParseElements(_, _, _)
\* The properties of an object from position i on, added to obj in the
\* order in which they are written.
ParseMembers(chars, i, obj) ==
    IF chars[i] = "}" THEN [value |-> obj, next |-> i + 1]
    ELSE IF chars[i] = "," THEN ParseMembers(chars, i + 1, obj)
    ELSE LET close == ScanTo(chars, i + 1, {"\""})
             key == SubSeq(chars, i + 1, close - 1)
             member == ParseValue(chars, close + 2)
         IN  ParseMembers(chars, member.next,
                          SetProperty(obj, key, member.value))

\* The elements of an array from position i on.
ParseElements(chars, i, items) ==
    IF chars[i] = "]" THEN [value |-> Array(items), next |-> i + 1]
    ELSE IF chars[i] = "," THEN ParseElements(chars, i + 1, items)
    ELSE LET element == ParseValue(chars, i)
         IN  ParseElements(chars, element.next, Append(items, element.value))

\* The JSON value written from position i on and the position after it.
ParseValue(chars, i) ==
    CASE chars[i] = "{" -> ParseMembers(chars, i + 1, EmptyObject)
      [] chars[i] = "[" -> ParseElements(chars, i + 1, <<>>)
      [] chars[i] = "\"" ->
            LET close == ScanTo(chars, i + 1, {"\""})
            IN  [value |-> Scalar(SubSeq(chars, i, close)), next |-> close + 1]
      [] OTHER ->
            LET end == ScanTo(chars, i, {",", "]", "}"})
            IN  [value |-> Scalar(SubSeq(chars, i, end - 1)), next |-> end]

\* JSON.parse of a text produced by JSON.stringify.
parse(chars) == ParseValue(chars, 1).value

NumKeys == 2

KeyIds == 1..NumKeys

\* The two forms in which generateWalletAuthKey hands out private key k:
\* the PEM text and 'wallet-auth:' followed by the base64 of its DER.
PemOf(k) == [tag |-> "", body |-> "pem", id |-> k]

WalletAuthOf(k) == [tag |-> "wallet-auth:", body |-> "base64der", id |-> k]

\* Key material a signer may be given: both forms of every key, and
\* material that is neither.
KeyMaterials ==
    {PemOf(k) : k \in KeyIds} \cup {WalletAuthOf(k) : k \in KeyIds}
    \cup {[tag |-> "", body |-> "garbage", id |-> 0],
          [tag |-> "wallet-auth:", body |-> "garbage", id |-> 0],
          [tag |-> "", body |-> "", id |-> 0]}

NoSignature == [signedBy |-> 0, payload |-> <<>>]

\* sign.sign(pemKey, 'base64') of the key manager: the material is used as
\* PEM text whatever its form.
KeyManagerSign(key, payloadString) ==
    IF key.tag = "" /\ key.body = "pem"
      THEN [threw |-> FALSE,
            signature |-> [signedBy |-> key.id, payload |-> payloadString]]
      ELSE [threw |-> TRUE, signature |-> NoSignature]

\* The session signer converts tagged material from base64 DER to PEM with
\* crypto.createPrivateKey before sign.sign.
SessionSignerSign(key, payloadString) ==
    IF ~KeyIsEmpty(key) /\ KeyParses(key)
      THEN [threw |-> FALSE,
            signature |-> [signedBy |-> key.id, payload |-> payloadString]]
      ELSE [threw |-> TRUE, signature |-> NoSignature]

JsonKeys == {<<"a">>, <<"b">>, <<"9">>, <<"1", "0">>}

JsonOne == Scalar(<<"1">>)

JsonScalars == {JsonOne, Scalar(<<"n", "u", "l", "l">>)}

\* The sequences of at most n distinct elements of S.
DistinctSeqs(S, n) ==
    {s \in SeqsUpTo(S, n) : \A i, j \in 1..Len(s) : s[i] = s[j] => i = j}

\* Scalars, arrays of scalars and objects with scalar properties.
FlatValues ==
    JsonScalars
    \cup {Array(s) : s \in DistinctSeqs(JsonScalars, MaxWidth)}
    \cup {FromEntries([i \in 1..Len(ks) |-> <<ks[i], JsonOne>>]) :
             ks \in DistinctSeqs(JsonKeys, MaxWidth)}

\* Request bodies: flat values, and arrays and objects that hold them.
Bodies ==
    FlatValues
    \cup {Array(<<v, JsonOne>>) : v \in FlatValues}
    \cup {FromEntries(<< <<(<<"b">>), v>>, <<(<<"a">>), w>> >>) :
             v, w \in FlatValues}

Quoted(text) == Scalar(<<"\"">> \o text \o <<"\"">>)

ToUpperChar(c) ==
    CASE c = "d" -> "D" [] c = "e" -> "E" [] c = "l" -> "L" [] c = "o" -> "O"
      [] c = "p" -> "P" [] c = "s" -> "S" [] c = "t" -> "T" [] OTHER -> c

toUpperCase(s) == [i \in 1..Len(s) |-> ToUpperChar(s[i])]

\* The payload literal of generateAuthorizationSignature.
Payload(method, body) ==
    FromEntries(<<
        <<(<<"v", "e", "r", "s", "i", "o", "n">>), JsonOne>>,
        <<(<<"m", "e", "t", "h", "o", "d">>), Quoted(toUpperCase(method))>>,
        <<(<<"u", "r", "l">>), Quoted(<<"u">>)>>,
        <<(<<"b", "o", "d", "y">>), body>>,
        <<(<<"h", "e", "a", "d", "e", "r", "s">>),
          FromEntries(<< <<(<<"p", "r", "i", "v", "y", "-", "a", "p", "p",
                               "-", "i", "d">>), Quoted(<<"a">>)>> >>)>> >>)

\* JSON.stringify(sortObject(payload)).
canonicalize(payload) == stringify(sortObject(payload))

\* generateAuthorizationSignature has been called: by sendTransactionDirectAPI
\* of the session signer with method POST and the request body as JSON
\* text, or by deleteKeyQuorum of the key manager with method DELETE.
SigningInit ==
    /\ DispatchAtRest
    /\ fee = AtRest
    /\ lanes = AtRest
    /\ batch = AtRest
    /\ recovery = AtRest
    /\ signer = AtRest
    /\ signing \in {[pc |-> "called", who |-> who, key |-> k, body |-> b,
                     payloadString |-> <<>>, signature |-> NoSignature] :
                    who \in {"sessionSigner", "keyManager"},
                    k \in KeyMaterials, b \in Bodies}
    /\ walletAuth = AtRest
    /\ operation = AtRest
    /\ LaterAtRest

\* The outcome of a signer's generateAuthorizationSignature.
SigningEnds(payloadString, signed, pcIfThrew) ==
    [signing EXCEPT !.pc = IF signed.threw THEN pcIfThrew ELSE "returned",
                    !.payloadString = payloadString,
                    !.signature = signed.signature]

\* The method with which each signer's generateAuthorizationSignature is
\* called.
SigningMethod(who) ==
    IF who = "sessionSigner" THEN <<"P", "O", "S", "T">>
                             ELSE <<"D", "E", "L", "E", "T", "E">>

\* PrivySessionSigner.generateAuthorizationSignature: extractPrivateKey
\* throws on an empty key before anything is parsed or canonicalized;
\* otherwise the body is parsed, the payload canonicalized and signed.
\* Anything thrown is caught and undefined is returned.
SessionSignerSignature ==
    /\ signing.pc = "called"
    /\ signing.who = "sessionSigner"
    /\ LET bodyText == stringify(signing.body)
           payloadString ==
               canonicalize(Payload(SigningMethod(signing.who),
                                    parse(bodyText)))
       IN  signing' =
             IF KeyIsEmpty(signing.key)
               THEN [signing EXCEPT !.pc = "undefined"]
               ELSE SigningEnds(payloadString,
                                SessionSignerSign(signing.key, payloadString),
                                "undefined")
    /\ UNCHANGED <<dispatchVars, fee, lanes, batch, recovery, signer,
                   walletAuth, operation, laterVars>>

\* PrivyAuthKeyManager.generateAuthorizationSignature: what sign.sign
\* throws reaches the caller.
KeyManagerSignature ==
    /\ signing.pc = "called"
    /\ signing.who = "keyManager"
    /\ LET payloadString ==
               canonicalize(Payload(SigningMethod(signing.who),
                                    signing.body))
       IN  signing' = SigningEnds(payloadString,
                                  KeyManagerSign(signing.key, payloadString),
                                  "threw")
    /\ UNCHANGED <<dispatchVars, fee, lanes, batch, recovery, signer,
                   walletAuth, operation, laterVars>>

SigningNext ==
    \/ SessionSignerSignature
    \/ KeyManagerSignature

SigningSpec == SigningInit /\ [][SigningNext]_vars

----------------------------------------------------------------------------
(* The wallet authorization model: PrivyAuthKeyManager's                   *)
(* setupWalletWithAuth, rotateSessionSigner and revokeSessionSigner for    *)
(* one wallet, one step per awaited request.  attached is the set of key   *)
(* quorums the custodial service has as session signers of the wallet,     *)
(* quorums the set of key quorums that exist there, config the key quorum  *)
(* of the WalletAuthConfig the caller holds (NoQuorum when none).          *)

\* Key quorums created over a run.
MaxQuorums == 3

QuorumIds == 1..MaxQuorums

NoQuorum == 0

WalletAuthOtherVars == <<dispatchVars, fee, lanes, batch, recovery, signer,
                         signing, operation, laterVars>>

\* No key has been set up for the wallet.
WalletAuthInit ==
    /\ DispatchAtRest
    /\ fee = AtRest
    /\ lanes = AtRest
    /\ batch = AtRest
    /\ recovery = AtRest
    /\ signer = AtRest
    /\ signing = AtRest
    /\ walletAuth = [pc |-> "idle", op |-> "none", attached |-> {},
                     quorums |-> {}, created |-> 0, new |-> NoQuorum,
                     old |-> NoQuorum, oldKey |-> PemOf(NoQuorum),
                     config |-> NoQuorum, outcome |-> "none"]
    /\ operation = AtRest
    /\ LaterAtRest

\* The operation in progress throws to its caller.
WalletAuthThrows ==
    [walletAuth EXCEPT !.pc = "idle", !.op = "none", !.outcome = "threw"]

\* setupWalletWithAuth is called for the wallet; generateWalletAuthKey
\* returns and createKeyQuorum is awaited.
SetupWalletWithAuth ==
    /\ walletAuth.pc = "idle"
    /\ walletAuth.config = NoQuorum
    /\ walletAuth.created < MaxQuorums
    /\ walletAuth' = [walletAuth EXCEPT !.pc = "createKeyQuorum",
                                        !.op = "setup",
                                        !.outcome = "none"]
    /\ UNCHANGED WalletAuthOtherVars

\* rotateSessionSigner is called with the key quorum of the held config and
\* one of the two private key strings of that config; its first step is
\* setupWalletWithAuth.
RotateSessionSigner ==
    /\ walletAuth.pc = "idle"
    /\ walletAuth.config # NoQuorum
    /\ walletAuth.created < MaxQuorums
    /\ \E key \in {PemOf(walletAuth.config), WalletAuthOf(walletAuth.config)} :
          walletAuth' = [walletAuth EXCEPT !.pc = "createKeyQuorum",
                                           !.op = "rotate",
                                           !.old = walletAuth.config,
                                           !.oldKey = key,
                                           !.outcome = "none"]
    /\ UNCHANGED WalletAuthOtherVars

\* revokeSessionSigner is called with the key quorum of the held config;
\* removeSessionSignerFromWallet is awaited.
RevokeSessionSigner ==
    /\ walletAuth.pc = "idle"
    /\ walletAuth.config # NoQuorum
    /\ \E key \in {PemOf(walletAuth.config), WalletAuthOf(walletAuth.config)} :
          walletAuth' = [walletAuth EXCEPT !.pc = "removeSessionSigner",
                                           !.op = "revoke",
                                           !.old = walletAuth.config,
                                           !.oldKey = key,
                                           !.outcome = "none"]
    /\ UNCHANGED WalletAuthOtherVars

\* createKeyQuorum: the response is ok, the new key quorum exists.
CreateKeyQuorumReturn ==
    /\ walletAuth.pc = "createKeyQuorum"
    /\ LET id == walletAuth.created + 1
       IN  walletAuth' = [walletAuth EXCEPT !.pc = "addSessionSigner",
                                            !.created = id,
                                            !.new = id,
                                            !.quorums = @ \cup {id}]
    /\ UNCHANGED WalletAuthOtherVars

\* createKeyQuorum: the response is not ok.
CreateKeyQuorumThrows ==
    /\ walletAuth.pc = "createKeyQuorum"
    /\ walletAuth' = WalletAuthThrows
    /\ UNCHANGED WalletAuthOtherVars

\* addSessionSignerToWallet: the response is ok.  setupWalletWithAuth
\* returns the new config; rotateSessionSigner goes on to remove the old
\* session signer.
AddSessionSignerReturn ==
    /\ walletAuth.pc = "addSessionSigner"
    /\ LET added == [walletAuth EXCEPT !.attached = @ \cup {walletAuth.new}]
       IN  walletAuth' =
               IF walletAuth.op = "setup"
               THEN [added EXCEPT !.pc = "idle", !.op = "none",
                                  !.config = walletAuth.new,
                                  !.outcome = "returned"]
               ELSE [added EXCEPT !.pc = "removeSessionSigner"]
    /\ UNCHANGED WalletAuthOtherVars

\* addSessionSignerToWallet: the response is not ok.
AddSessionSignerThrows ==
    /\ walletAuth.pc = "addSessionSigner"
    /\ walletAuth' = WalletAuthThrows
    /\ UNCHANGED WalletAuthOtherVars

\* removeSessionSignerFromWallet: the response is ok.
RemoveSessionSignerReturn ==
    /\ walletAuth.pc = "removeSessionSigner"
    /\ walletAuth' = [walletAuth EXCEPT !.pc = "deleteKeyQuorum",
                                        !.attached = @ \ {walletAuth.old}]
    /\ UNCHANGED WalletAuthOtherVars

\* Variant: a failed removal of the old session signer is caught like a
\* failed deletion; the operation returns.
RemoveSessionSignerThrows_Swallowed ==
    /\ walletAuth.pc = "removeSessionSigner"
    /\ walletAuth' = [walletAuth EXCEPT !.pc = "idle", !.op = "none",
                                        !.outcome = "returned",
                                        !.config = IF walletAuth.op = "rotate"
                                                     THEN walletAuth.new
                                                     ELSE NoQuorum]
    /\ UNCHANGED WalletAuthOtherVars

\* removeSessionSignerFromWallet: the response is not ok; the error is not
\* caught, the new config of a rotation never reaches the caller.
RemoveSessionSignerThrows ==
    /\ walletAuth.pc = "removeSessionSigner"
    /\ walletAuth' = WalletAuthThrows
    /\ UNCHANGED WalletAuthOtherVars

\* The end of rotateSessionSigner and revokeSessionSigner after the
\* deletion of the old key quorum was tried.
WalletAuthReturns(state) ==
    [state EXCEPT !.pc = "idle", !.op = "none", !.outcome = "returned",
                  !.config = IF state.op = "rotate" THEN state.new
                                                    ELSE NoQuorum]

\* Whether deleteKeyQuorum gets a signature for its request.
DeleteKeyQuorumSigned ==
    ~KeyManagerSign(walletAuth.oldKey,
                    canonicalize(Payload(SigningMethod("keyManager"),
                                         EmptyObject))).threw

\* deleteKeyQuorum: the request is signed and the response is ok.
DeleteKeyQuorumReturn ==
    /\ walletAuth.pc = "deleteKeyQuorum"
    /\ DeleteKeyQuorumSigned
    /\ walletAuth' =
           WalletAuthReturns([walletAuth EXCEPT !.quorums = @ \ {walletAuth.old}])
    /\ UNCHANGED WalletAuthOtherVars

\* deleteKeyQuorum throws, signing or on a response that is not ok; the
\* error is caught and logged.
DeleteKeyQuorumThrows ==
    /\ walletAuth.pc = "deleteKeyQuorum"
    /\ walletAuth' = WalletAuthReturns(walletAuth)
    /\ UNCHANGED WalletAuthOtherVars

WalletAuthNext ==
    \/ SetupWalletWithAuth
    \/ RotateSessionSigner
    \/ RevokeSessionSigner
    \/ CreateKeyQuorumReturn
    \/ CreateKeyQuorumThrows
    \/ AddSessionSignerReturn
    \/ AddSessionSignerThrows
    \/ RemoveSessionSignerReturn
    \/ RemoveSessionSignerThrows
    \/ DeleteKeyQuorumReturn
    \/ DeleteKeyQuorumThrows

WalletAuthSpec == WalletAuthInit /\ [][WalletAuthNext]_vars

----------------------------------------------------------------------------
(* The operation model: one public operation of the client (createJob,     *)
(* createMemo, createPayableMemo, createPayableFeeMemo, signMemo,          *)
(* setBudget, approveAllowance) around sendTransaction on the direct path, *)
(* one step per awaited call.  An error is a record of its name and its    *)
(* message; failure is what the awaited call threw, error what the caller  *)
(* of the operation receives.                                              *)

Operations == {"createJob", "approveAllowance", "createPayableFeeMemo",
               "createPayableMemo", "createMemo", "signMemo", "setBudget"}

\* The text each operation's catch block throws.
FailedTo(op) ==
    CASE op = "createJob" -> "Failed to create job: "
      [] op = "approveAllowance" -> "Failed to approve allowance"
      [] op = "createPayableFeeMemo" -> "Failed to create payable fee memo"
      [] op = "createPayableMemo" -> "Failed to create payable memo"
      [] op = "createMemo" -> "Failed to create memo"
      [] op = "signMemo" -> "Failed to sign memo"
      [] op = "setBudget" -> "Failed to set budget"

NoError == [name |-> "", message |-> <<>>]

\* new Error(message)
Error(message) == [name |-> "Error", message |-> message]

\* What the provider and the signing authority throw from each awaited call.
ThrownBy(call) ==
    CASE call = "estimateFeesPerGas" ->
            {[name |-> "HttpRequestError", message |-> <<"fee query failed">>]}
      [] call = "estimateGas" ->
            {[name |-> "EstimateGasExecutionError",
              message |-> <<"execution reverted">>]}
      [] call = "sendTransaction" ->
            {Error(<<"submission rejected">>), Error(<<>>)}
      [] call = "waitForTransactionReceipt" ->
            {[name |-> "WaitForTransactionReceiptTimeoutError",
              message |-> <<"timed out">>]}
      [] call = "getTransactionReceipt" ->
            {[name |-> "TransactionReceiptNotFoundError",
              message |-> <<"receipt not found">>]}

\* throw new Error('Transaction failed')
TransactionFailed == Error(<<"Transaction failed">>)

\* `${error.message || error}`: the message, or the error as a string when
\* its message is empty.
MessageOrError(e) == IF e.message # <<>> THEN e.message ELSE <<e.name>>

\* The error the catch block of the operation throws for what it caught.
OperationError(op, e) ==
    IF op = "createJob" THEN Error(<<FailedTo(op)>> \o MessageOrError(e))
                        ELSE Error(<<FailedTo(op)>>)

OperationOtherVars == <<dispatchVars, fee, lanes, batch, recovery, signer,
                        signing, walletAuth, laterVars>>

OperationInit ==
    /\ DispatchAtRest
    /\ fee = AtRest
    /\ lanes = AtRest
    /\ batch = AtRest
    /\ recovery = AtRest
    /\ signer = AtRest
    /\ signing = AtRest
    /\ walletAuth = AtRest
    /\ operation \in {[pc |-> "estimateFeesPerGas", op |-> op, txHash |-> NoHash,
                       failedAt |-> "none", failure |-> NoError,
                       error |-> NoError] : op \in Operations}
    /\ LaterAtRest

\* The call awaited after each call of the direct path.
OperationCallAfter(call) ==
    CASE call = "estimateFeesPerGas" -> "estimateGas"
      [] call = "estimateGas" -> "sendTransaction"
      [] call = "sendTransaction" -> "waitForTransactionReceipt"

OperationAwaiting ==
    operation.pc \in {"estimateFeesPerGas", "estimateGas", "sendTransaction",
                      "waitForTransactionReceipt", "getTransactionReceipt"}

\* The operation catches e and throws its own error.
OperationThrows(e) ==
    [operation EXCEPT !.pc = "threw", !.failedAt = operation.pc,
                      !.failure = e,
                      !.error = OperationError(operation.op, e)]

\* The awaited call throws.
OperationCallThrows ==
    /\ OperationAwaiting
    /\ \E e \in ThrownBy(operation.pc) : operation' = OperationThrows(e)
    /\ UNCHANGED OperationOtherVars

\* estimateFeesPerGas or estimateGas returns.
OperationEstimateReturn ==
    /\ operation.pc \in {"estimateFeesPerGas", "estimateGas"}
    /\ operation' = [operation EXCEPT !.pc = OperationCallAfter(@)]
    /\ UNCHANGED OperationOtherVars

\* The signing authority returns the hash of the submitted transaction.
OperationSignerSendReturn ==
    /\ operation.pc = "sendTransaction"
    /\ \E h \in Hashes :
          operation' = [operation EXCEPT !.pc = OperationCallAfter(@),
                                         !.txHash = h]
    /\ UNCHANGED OperationOtherVars

\* The receipt has status success: sendTransaction returns the hash; createJob
\* goes on to getJobIdFromTx, the other operations return.
OperationReceiptSuccess ==
    /\ operation.pc = "waitForTransactionReceipt"
    /\ operation' = [operation EXCEPT
                       !.pc = IF operation.op = "createJob"
                                THEN "getTransactionReceipt" ELSE "returned"]
    /\ UNCHANGED OperationOtherVars

\* The receipt has another status: sendTransaction throws
\* 'Transaction failed'.
OperationReceiptReverted ==
    /\ operation.pc = "waitForTransactionReceipt"
    /\ operation' = OperationThrows(TransactionFailed)
    /\ UNCHANGED OperationOtherVars

\* getJobIdFromTx finds the contract's log and createJob returns, or finds
\* none and throws, or fromHex throws on the data of the log it found.
OperationGetJobIdReturn ==
    /\ operation.pc = "getTransactionReceipt"
    /\ \/ operation' = [operation EXCEPT !.pc = "returned"]
       \/ operation' = OperationThrows(Error(<<NoLogsMessage>>))
       \/ operation' = OperationThrows(Error(<<"fromHex">>))
    /\ UNCHANGED OperationOtherVars

OperationNext ==
    \/ OperationCallThrows
    \/ OperationEstimateReturn
    \/ OperationSignerSendReturn
    \/ OperationReceiptSuccess
    \/ OperationReceiptReverted
    \/ OperationGetJobIdReturn

OperationSpec == OperationInit /\ [][OperationNext]_vars

----
(***************************************************************************)
(* WalletAuthStore: a static Map from wallet id to WalletAuthConfig.  A Map *)
(* is the sequence of its entries in insertion order.  saved is what a      *)
(* caller knows it saved last for each wallet id and has not deleted since; *)
(* last is the most recent call with what it returned (for save and        *)
(* delete: what the caller had saved before).                              *)
(***************************************************************************)
MaxStoreOps == 4

WalletIds == {"w1", "w2"}

\* Two addresses that differ only in case.
WalletAddresses == {"0xab", "0xAB"}

WalletAuthConfigs ==
    [walletAddress : WalletAddresses, keyQuorumId : {"q1", "q2"}]

\* undefined
NoConfig == [walletAddress |-> "", keyQuorumId |-> ""]

\* The positions of key in the entries of a Map.
MapPositions(entries, key) ==
    {i \in 1..Len(entries) : entries[i].key = key}

\* Map.prototype.has
MapHas(entries, key) == MapPositions(entries, key) # {}

\* Map.prototype.get: the value of the entry of key, or undefined.
MapGet(entries, key) ==
    IF MapHas(entries, key)
      THEN LET first == CHOOSE i \in MapPositions(entries, key) :
                            \A j \in MapPositions(entries, key) : i <= j
           IN  entries[first].value
      ELSE NoConfig

\* Variant: set adds an entry whether or not the key has one.
MapSet_Appends(entries, key, value) ==
    Append(entries, [key |-> key, value |-> value])

\* Map.prototype.set: the value of an existing entry is replaced in place,
\* a new entry goes to the end.
MapSet(entries, key, value) ==
    IF MapHas(entries, key)
      THEN [i \in 1..Len(entries) |->
               IF entries[i].key = key THEN [key |-> key, value |-> value]
                                       ELSE entries[i]]
      ELSE Append(entries, [key |-> key, value |-> value])

\* Map.prototype.delete: the entry of key is removed, the others keep their
\* order.
RECURSIVE MapDelete(_, _)
MapDelete(entries, key) ==
    IF entries = <<>> THEN <<>>
    ELSE IF Head(entries).key = key THEN MapDelete(Tail(entries), key)
    ELSE <<Head(entries)>> \o MapDelete(Tail(entries), key)

\* Array.from(map.values())
MapValues(entries) == [i \in 1..Len(entries) |-> entries[i].value]

\* WalletAuthStore.getByAddress: the first value in insertion order whose
\* walletAddress is strictly equal to address.
getByAddress(entries, address) ==
    LET hits == {i \in 1..Len(entries) :
                    entries[i].value.walletAddress = address}
    IN  IF hits = {} THEN NoConfig
        ELSE entries[CHOOSE i \in hits : \A j \in hits : i <= j].value

StoreOtherVars == <<dispatchVars, fee, lanes, batch, recovery, signer,
                    signing, walletAuth, operation, memo, transfer, jobs>>

NoCall == [op |-> "none", id |-> "", address |-> "", config |-> NoConfig,
           result |-> <<>>]

StoreInit ==
    /\ DispatchAtRest
    /\ fee = AtRest
    /\ lanes = AtRest
    /\ batch = AtRest
    /\ recovery = AtRest
    /\ signer = AtRest
    /\ signing = AtRest
    /\ walletAuth = AtRest
    /\ operation = AtRest
    /\ memo = AtRest
    /\ store = [pc |-> "run", entries |-> <<>>,
                saved |-> [id \in WalletIds |-> NoConfig],
                calls |-> 0, last |-> NoCall]
    /\ transfer = AtRest
    /\ jobs = AtRest

\* The store after a call that left entries as they are.
StoreRead(call) == [store EXCEPT !.calls = @ + 1, !.last = call]

\* WalletAuthStore.save(walletId, config)
StoreSave(id, conf) ==
    /\ store.pc = "run"
    /\ store.calls < MaxStoreOps
    /\ store' = [store EXCEPT
                   !.entries = MapSet(@, id, conf),
                   !.saved[id] = conf,
                   !.calls = @ + 1,
                   !.last = [NoCall EXCEPT !.op = "save", !.id = id,
                                           !.config = conf,
                                           !.result = <<store.saved[id]>>]]
    /\ UNCHANGED StoreOtherVars

\* WalletAuthStore.get(walletId)
StoreGet(id) ==
    /\ store.pc = "run"
    /\ store.calls < MaxStoreOps
    /\ store' = StoreRead([NoCall EXCEPT
                             !.op = "get", !.id = id,
                             !.result = <<MapGet(store.entries, id)>>])
    /\ UNCHANGED StoreOtherVars

\* WalletAuthStore.getByAddress(address)
StoreGetByAddress(address) ==
    /\ store.pc = "run"
    /\ store.calls < MaxStoreOps
    /\ store' = StoreRead([NoCall EXCEPT
                             !.op = "getByAddress", !.address = address,
                             !.result =
                                <<getByAddress(store.entries, address)>>])
    /\ UNCHANGED StoreOtherVars

\* WalletAuthStore.delete(walletId)
StoreDelete(id) ==
    /\ store.pc = "run"
    /\ store.calls < MaxStoreOps
    /\ store' = [store EXCEPT
                   !.entries = MapDelete(@, id),
                   !.saved[id] = NoConfig,
                   !.calls = @ + 1,
                   !.last = [NoCall EXCEPT !.op = "delete", !.id = id,
                                           !.result = <<store.saved[id]>>]]
    /\ UNCHANGED StoreOtherVars

\* WalletAuthStore.getAll()
StoreGetAll ==
    /\ store.pc = "run"
    /\ store.calls < MaxStoreOps
    /\ store' = StoreRead([NoCall EXCEPT
                             !.op = "getAll",
                             !.result = MapValues(store.entries)])
    /\ UNCHANGED StoreOtherVars

StoreNext ==
    \/ \E id \in WalletIds : \E conf \in WalletAuthConfigs :
           StoreSave(id, conf)
    \/ \E id \in WalletIds : StoreGet(id)
    \/ \E address \in WalletAddresses : StoreGetByAddress(address)
    \/ \E id \in WalletIds : StoreDelete(id)
    \/ StoreGetAll

StoreSpec == StoreInit /\ [][StoreNext]_vars

----
(***************************************************************************)
(* transferAllBalance: the balance is read, the amount is computed and     *)
(* transferFunds submits one transaction to the session signer.  Amounts   *)
(* are bigints; a request is what sessionSigner.sendTransaction is given.  *)
(***************************************************************************)
MaxBalance == 3

\* What the caller may pass as tokenAddress: undefined, or a token contract.
TokenAddresses == {"undefined", "0xToken"}

\* !tokenAddress
NoTokenAddress(tokenAddress) == tokenAddress = "undefined"

\* encodeFunctionData for transfer(to, amount) of erc20Abi; "0x" is no call.
TransferCall(to, amount) == [fn |-> "transfer", to |-> to, amount |-> amount]

NoCallData == [fn |-> "0x", to |-> "", amount |-> 0]

\* transferFunds: the transaction given to sessionSigner.sendTransaction.
transferFunds(toAddress, amount, tokenAddress, isNativeToken) ==
    IF isNativeToken \/ NoTokenAddress(tokenAddress)
      THEN [to |-> toAddress, value |-> amount, data |-> NoCallData]
      ELSE [to |-> tokenAddress, value |-> 0,
            data |-> TransferCall(toAddress, amount)]

\* Variant: the reserve check lets a balance equal to the reserve pass.
AmountToTransfer_Less(balance, tokenAddress, keepGasReserve) ==
    IF balance = 0
      THEN [threw |-> TRUE, message |-> "No balance to transfer", amount |-> 0]
    ELSE IF NoTokenAddress(tokenAddress) /\ keepGasReserve > 0
      THEN IF balance < keepGasReserve
             THEN [threw |-> TRUE,
                   message |-> "Balance is less than or equal to gas reserve",
                   amount |-> 0]
             ELSE [threw |-> FALSE, message |-> "",
                   amount |-> balance - keepGasReserve]
    ELSE [threw |-> FALSE, message |-> "", amount |-> balance]

\* The checks of transferAllBalance on the balance it read: what it throws,
\* or amountToTransfer.
AmountToTransfer(balance, tokenAddress, keepGasReserve) ==
    IF balance = 0
      THEN [threw |-> TRUE, message |-> "No balance to transfer", amount |-> 0]
    ELSE IF NoTokenAddress(tokenAddress) /\ keepGasReserve > 0
      THEN IF balance <= keepGasReserve
             THEN [threw |-> TRUE,
                   message |-> "Balance is less than or equal to gas reserve",
                   amount |-> 0]
             ELSE [threw |-> FALSE, message |-> "",
                   amount |-> balance - keepGasReserve]
    ELSE [threw |-> FALSE, message |-> "", amount |-> balance]

TransferOtherVars == <<dispatchVars, fee, lanes, batch, recovery, signer,
                       signing, walletAuth, operation, memo, store, jobs>>

\* transferAllBalance has been called and awaits getBalance; keepGasReserve
\* defaults to 0 and may be any bigint.
TransferInit ==
    /\ DispatchAtRest
    /\ fee = AtRest
    /\ lanes = AtRest
    /\ batch = AtRest
    /\ recovery = AtRest
    /\ signer = AtRest
    /\ signing = AtRest
    /\ walletAuth = AtRest
    /\ operation = AtRest
    /\ memo = AtRest
    /\ store = AtRest
    /\ transfer \in {[pc |-> "getBalance", toAddress |-> "0xTo",
                      tokenAddress |-> token, keepGasReserve |-> reserve,
                      read |-> FALSE, balance |-> 0, requests |-> <<>>,
                      error |-> ""] :
                     token \in TokenAddresses,
                     reserve \in (0 - 1)..(MaxBalance + 1)}
    /\ jobs = AtRest

\* getBalance returns the native balance or the token's balanceOf; the
\* checks run and transferFunds calls sessionSigner.sendTransaction.
TransferGetBalanceReturn ==
    /\ transfer.pc = "getBalance"
    /\ \E balance \in 0..MaxBalance :
         LET checked == AmountToTransfer(balance, transfer.tokenAddress,
                                         transfer.keepGasReserve)
             request == transferFunds(transfer.toAddress, checked.amount,
                                      transfer.tokenAddress,
                                      NoTokenAddress(transfer.tokenAddress))
         IN  transfer' =
               IF checked.threw
                 THEN [transfer EXCEPT !.pc = "threw", !.read = TRUE,
                                       !.balance = balance,
                                       !.error = checked.message]
                 ELSE [transfer EXCEPT !.pc = "sendTransaction",
                                       !.read = TRUE, !.balance = balance,
                                       !.requests = Append(@, request)]
    /\ UNCHANGED TransferOtherVars

\* getBalance throws.
TransferGetBalanceThrows ==
    /\ transfer.pc = "getBalance"
    /\ transfer' = [transfer EXCEPT !.pc = "threw", !.error = "getBalance"]
    /\ UNCHANGED TransferOtherVars

\* sessionSigner.sendTransaction returns the hash, which transferFunds and
\* transferAllBalance return.
TransferSendReturn ==
    /\ transfer.pc = "sendTransaction"
    /\ transfer' = [transfer EXCEPT !.pc = "returned"]
    /\ UNCHANGED TransferOtherVars

\* sessionSigner.sendTransaction throws.
TransferSendThrows ==
    /\ transfer.pc = "sendTransaction"
    /\ transfer' = [transfer EXCEPT !.pc = "threw",
                                    !.error = "sendTransaction"]
    /\ UNCHANGED TransferOtherVars

TransferNext ==
    \/ TransferGetBalanceReturn
    \/ TransferGetBalanceThrows
    \/ TransferSendReturn
    \/ TransferSendThrows

TransferSpec == TransferInit /\ [][TransferNext]_vars

----
(***************************************************************************)
(* createMultipleJobs: sendBatchTransactions confirms one transaction      *)
(* after the other and returns their hashes, then every hash's             *)
(* getJobIdFromTx runs under Promise.all.  recovered[i] is the state of    *)
(* the i-th promise given to Promise.all, order the indices in the order   *)
(* in which they fulfilled, receipts[i] the logs of the receipt of the     *)
(* i-th hash.                                                              *)
(***************************************************************************)
MaxJobs == 2

JobHashes == 1..MaxJobs

\* The receipts getTransactionReceipt may return: without logs, or with one
\* log of the contract (its address in another case) or of another address.
JobReceipts ==
    {<<>>} \cup
    {<<[address |-> a, data |-> d,
        event |-> [threw |-> TRUE, hasArgs |-> FALSE,
                   memoId |-> UndefinedText]]>> :
       a \in {<<"0", "x", "a", "B">>, <<"0", "x", "c", "d">>}, d \in LogData}

JobPending == [state |-> "pending", jobId |-> NoValue]

\* Variant: the values are collected in the order in which the promises
\* fulfilled.
PromiseAll_CompletionOrder(values, order) ==
    [k \in 1..Len(order) |-> values[order[k]]]

\* What Promise.all fulfills with: the values in the order of the promises
\* it was given.
PromiseAll(values, order) == values

JobsOtherVars == <<dispatchVars, fee, lanes, batch, recovery, signer,
                   signing, walletAuth, operation, memo, store, transfer>>

\* createMultipleJobs has been called with n jobs and awaits
\* sendBatchTransactions, whose loop awaits the first sendTransaction.
JobsInit ==
    /\ DispatchAtRest
    /\ fee = AtRest
    /\ lanes = AtRest
    /\ batch = AtRest
    /\ recovery = AtRest
    /\ signer = AtRest
    /\ signing = AtRest
    /\ walletAuth = AtRest
    /\ operation = AtRest
    /\ memo = AtRest
    /\ store = AtRest
    /\ transfer = AtRest
    /\ jobs \in {[pc |-> "sendBatchTransactions", n |-> n, hashes |-> <<>>,
                  recovered |-> <<>>, receipts |-> <<>>, order |-> <<>>,
                  results |-> <<>>, error |-> <<>>] : n \in 1..MaxJobs}

\* sendTransaction of the next transaction returns a hash no other
\* transaction has; after the last one sendBatchTransactions returns and
\* getJobIdFromTx is called for every hash.
JobsTransactionConfirmed ==
    /\ jobs.pc = "sendBatchTransactions"
    /\ \E h \in JobHashes \ {jobs.hashes[i] : i \in 1..Len(jobs.hashes)} :
         LET hashes == Append(jobs.hashes, h)
         IN  jobs' = IF Len(hashes) = jobs.n
                       THEN [jobs EXCEPT
                               !.pc = "Promise.all",
                               !.hashes = hashes,
                               !.recovered = [i \in 1..jobs.n |-> JobPending],
                               !.receipts = [i \in 1..jobs.n |-> <<>>]]
                       ELSE [jobs EXCEPT !.hashes = hashes]
    /\ UNCHANGED JobsOtherVars

\* sendTransaction of the next transaction throws: sendBatchTransactions
\* throws and createMultipleJobs with it.
JobsTransactionFails ==
    /\ jobs.pc = "sendBatchTransactions"
    /\ jobs' = [jobs EXCEPT !.pc = "threw",
                            !.error = <<"Batch failed at transaction",
                                        Len(jobs.hashes) + 1>>]
    /\ UNCHANGED JobsOtherVars

\* The results createMultipleJobs returns when every promise has fulfilled.
JobsResults(hashes, recovered, order) ==
    PromiseAll([i \in 1..Len(hashes) |->
                   [txHash |-> hashes[i], jobId |-> recovered[i].jobId]],
               order)

\* getTransactionReceipt of the i-th hash returns: getJobIdFromTx reads the
\* job id or throws.  The first rejection rejects Promise.all and
\* createMultipleJobs throws; the last fulfillment fulfills it and the
\* results are returned.  A promise that settles after a rejection changes
\* nothing for the caller.
JobsRecoveryReturn(i) ==
    /\ jobs.pc \in {"Promise.all", "threw"}
    /\ i \in 1..Len(jobs.recovered)
    /\ jobs.recovered[i].state = "pending"
    /\ \E logs \in JobReceipts :
         LET outcome == getJobIdFromTx(logs)
             settled == [jobs EXCEPT
                           !.receipts[i] = logs,
                           !.recovered[i] =
                              IF outcome.threw
                                THEN [state |-> "rejected", jobId |-> NoValue]
                                ELSE [state |-> "fulfilled",
                                      jobId |-> outcome.value],
                           !.order = IF outcome.threw THEN @
                                                      ELSE Append(@, i)]
         IN  jobs' =
               IF jobs.pc = "threw" THEN settled
               ELSE IF outcome.threw
                 THEN [settled EXCEPT !.pc = "threw",
                                      !.error = outcome.message]
               ELSE IF \A j \in 1..jobs.n :
                          settled.recovered[j].state = "fulfilled"
                 THEN [settled EXCEPT
                         !.pc = "returned",
                         !.results = JobsResults(settled.hashes,
                                                 settled.recovered,
                                                 settled.order)]
               ELSE settled
    /\ UNCHANGED JobsOtherVars

\* getTransactionReceipt of the i-th hash throws.
JobsRecoveryThrows(i) ==
    /\ jobs.pc \in {"Promise.all", "threw"}
    /\ i \in 1..Len(jobs.recovered)
    /\ jobs.recovered[i].state = "pending"
    /\ LET settled == [jobs EXCEPT
                         !.recovered[i] = [state |-> "rejected",
                                           jobId |-> NoValue]]
       IN  jobs' = IF jobs.pc = "threw" THEN settled
                   ELSE [settled EXCEPT !.pc = "threw",
                                        !.error = <<"getTransactionReceipt">>]
    /\ UNCHANGED JobsOtherVars

JobsNext ==
    \/ JobsTransactionConfirmed
    \/ JobsTransactionFails
    \/ \E i \in 1..MaxJobs : JobsRecoveryReturn(i)
    \/ \E i \in 1..MaxJobs : JobsRecoveryThrows(i)

JobsSpec == JobsInit /\ [][JobsNext]_vars

----
(***************************************************************************)
(* AcpMemo: the constructor keeps the content and parses it into           *)
(* structuredContent; payloadType and getStructuredContent read it.        *)
(* Contents are texts (sequences of characters), parsed values are the     *)
(* JSON values of the signing model.                                       *)
(***************************************************************************)
NullText == <<"n", "u", "l", "l">>
TrueText == <<"t", "r", "u", "e">>
FalseText == <<"f", "a", "l", "s", "e">>
TypeKey == <<"t", "y", "p", "e">>

\* null and undefined as values; the text of undefined is not JSON, so no
\* parsed value is equal to it.
Null == Scalar(NullText)
Undefined == Scalar(UndefinedText)

\* chars[i..i+Len(text)-1] = text
TextAt(chars, i, text) ==
    /\ i + Len(text) - 1 <= Len(chars)
    /\ SubSeq(chars, i, i + Len(text) - 1) = text

\* The position after the string literal that starts at i, 0 when there is
\* none.
JsonStringEnd(chars, i) ==
    IF i > Len(chars) \/ chars[i] # "\"" THEN 0
    ELSE LET close == ScanTo(chars, i + 1, {"\""})
         IN  IF close > Len(chars) THEN 0 ELSE close + 1

RECURSIVE JsonEnd(_, _)
RECURSIVE JsonElementsEnd(_, _)
RECURSIVE JsonMembersEnd(_, _)
\* The position after the elements and the closing bracket of an array
\* whose next element starts at i, 0 when the text is malformed.
JsonElementsEnd(chars, i) ==
    LET end == JsonEnd(chars, i)
    IN  IF end = 0 \/ end > Len(chars) THEN 0
        ELSE IF chars[end] = "]" THEN end + 1
        ELSE IF chars[end] = "," THEN JsonElementsEnd(chars, end + 1)
        ELSE 0

\* The same for the members of an object.
JsonMembersEnd(chars, i) ==
    LET colon == JsonStringEnd(chars, i)
    IN  IF colon = 0 \/ colon > Len(chars) \/ chars[colon] # ":" THEN 0
        ELSE LET end == JsonEnd(chars, colon + 1)
             IN  IF end = 0 \/ end > Len(chars) THEN 0
                 ELSE IF chars[end] = "}" THEN end + 1
                 ELSE IF chars[end] = "," THEN JsonMembersEnd(chars, end + 1)
                 ELSE 0

\* The position after the JSON value that starts at i, 0 when no JSON value
\* starts there: an object, an array, a string, a literal or an unsigned
\* integer without leading zero.
JsonEnd(chars, i) ==
    IF i > Len(chars) THEN 0
    ELSE IF chars[i] = "{"
      THEN IF i < Len(chars) /\ chars[i + 1] = "}" THEN i + 2
           ELSE JsonMembersEnd(chars, i + 1)
    ELSE IF chars[i] = "["
      THEN IF i < Len(chars) /\ chars[i + 1] = "]" THEN i + 2
           ELSE JsonElementsEnd(chars, i + 1)
    ELSE IF chars[i] = "\"" THEN JsonStringEnd(chars, i)
    ELSE IF TextAt(chars, i, NullText) THEN i + 4
    ELSE IF TextAt(chars, i, TrueText) THEN i + 4
    ELSE IF TextAt(chars, i, FalseText) THEN i + 5
    ELSE LET digits == LeadingDigits(SubSeq(chars, i, Len(chars)))
         IN  IF digits = <<>> \/ (Len(digits) > 1 /\ digits[1] = "0") THEN 0
             ELSE i + Len(digits)

\* JSON.parse(text): the value, or a SyntaxError when the text is not one
\* JSON value.
JsonParse(chars) ==
    IF JsonEnd(chars, 1) = Len(chars) + 1
      THEN [threw |-> FALSE, value |-> parse(chars)]
      ELSE [threw |-> TRUE, value |-> Undefined]

\* tryParseJson: JSON.parse inside a try, null when it throws.
tryParseJson(content) ==
    IF JsonParse(content).threw THEN Null ELSE JsonParse(content).value

\* !value for a JSON value: null, false, 0 and the empty string.
Falsy(value) ==
    /\ value.t = "scalar"
    /\ value.s \in {NullText, UndefinedText, FalseText, <<"0">>, <<"\"", "\"">>}

\* Variant: what tryParseJson returns is kept as it is.
StructuredContent_KeepsNull(content) == tryParseJson(content)

\* tryParseJson(this.content) || undefined
StructuredContent(content) ==
    IF Falsy(tryParseJson(content)) THEN Undefined ELSE tryParseJson(content)

\* this.structuredContent?.type
payloadType(structuredContent) ==
    IF structuredContent \in {Undefined, Null} THEN Undefined
    ELSE IF /\ structuredContent.t = "object"
            /\ \E i \in 1..Len(structuredContent.keys) :
                  structuredContent.keys[i] = TypeKey
      THEN GetProperty(structuredContent, TypeKey)
    ELSE Undefined

\* A payload with a declared type.
TypedPayload(type, data) ==
    FromEntries(<< <<TypeKey, Quoted(type)>>, <<(<<"d">>), data>> >>)

\* Contents that are JSON: the texts of scalars, of flat arrays and
\* objects, and of typed payloads.
JsonContents ==
    {stringify(v) : v \in FlatValues}
    \cup {NullText, FalseText, TrueText, <<"0">>, <<"\"", "\"">>,
          <<"\"", "h", "i", "\"">>}
    \cup {stringify(TypedPayload(<<"f", "e", "e">>, v)) : v \in FlatValues}

\* Contents that are not JSON: plain text, the empty text, truncated or
\* malformed JSON.
NonJsonContents ==
    {<<>>, <<"h", "i">>, UndefinedText, <<"{">>, <<"[", "1", ",", "]">>,
     <<"{", "a", ":", "1", "}">>, <<"{", "\"", "a", "\"", ":", "1">>,
     <<"\"", "h", "i">>, <<"0", "1">>, <<"n", "u", "l">>,
     <<"1", "}">>, <<"{", "\"", "a", "\"", "}">>}

MemoOtherVars == <<dispatchVars, fee, lanes, batch, recovery, signer,
                   signing, walletAuth, operation, store, transfer, jobs>>

\* new AcpMemo(...) has been called with a content.
MemoInit ==
    /\ DispatchAtRest
    /\ fee = AtRest
    /\ lanes = AtRest
    /\ batch = AtRest
    /\ recovery = AtRest
    /\ signer = AtRest
    /\ signing = AtRest
    /\ walletAuth = AtRest
    /\ operation = AtRest
    /\ memo \in {[pc |-> "new", given |-> c, content |-> c,
                  structuredContent |-> Undefined, read |-> "none",
                  returned |-> Undefined] :
                 c \in JsonContents \cup NonJsonContents}
    /\ store = AtRest
    /\ transfer = AtRest
    /\ jobs = AtRest

\* The constructor: the parameter property content is assigned and
\* structuredContent is computed from it.
MemoConstruct ==
    /\ memo.pc = "new"
    /\ memo' = [memo EXCEPT
                  !.pc = "constructed",
                  !.structuredContent = StructuredContent(memo.content)]
    /\ UNCHANGED MemoOtherVars

\* get payloadType()
MemoPayloadType ==
    /\ memo.pc = "constructed"
    /\ memo' = [memo EXCEPT !.read = "payloadType",
                            !.returned = payloadType(memo.structuredContent)]
    /\ UNCHANGED MemoOtherVars

\* getStructuredContent()
MemoGetStructuredContent ==
    /\ memo.pc = "constructed"
    /\ memo' = [memo EXCEPT !.read = "getStructuredContent",
                            !.returned = memo.structuredContent]
    /\ UNCHANGED MemoOtherVars

MemoNext ==
    \/ MemoConstruct
    \/ MemoPayloadType
    \/ MemoGetStructuredContent

MemoSpec == MemoInit /\ [][MemoNext]_vars

----
(***************************************************************************)
(* Properties.                                                             *)
(***************************************************************************)
IsPrefix(s, t) == Len(s) <= Len(t) /\ SubSeq(t, 1, Len(s)) = s

Range(s) == {s[i] : i \in 1..Len(s)}

\* The status the client has seen for the sponsored / the direct hash of d.
SponsoredReceipt(d) ==
    IF sponsoredHash[d] = NoHash THEN "none" ELSE receipt[sponsoredHash[d]]

DirectReceipt(d) == IF hash[d] = NoHash THEN "none" ELSE receipt[hash[d]]

\* The broadcasts of dispatch d whose receipt confirmed success.
Confirmed(d) == {k \in 1..3 : receipt[HashOf(d, k)] = "success"}

\* Dispatches with a submission call outstanding, on either path.
Submitting ==
    {d \in Dispatches : pc[d] \in SponsoredSubmitStates \cup DirectSubmitStates}

\* The messages of ErrorMessages that contain 'AA25' or 'nonce'.
NonceConflictMessages == {MsgAA25, MsgNonce}

\* The first sponsored attempt of d threw a nonce conflict / another error.
FirstThrewNonceConflict(d) ==
    /\ Len(attempts[d]) >= 1
    /\ ~attempts[d][1].ok
    /\ attempts[d][1].message \in NonceConflictMessages

FirstThrewOther(d) ==
    /\ Len(attempts[d]) >= 1
    /\ ~attempts[d][1].ok
    /\ attempts[d][1].message \notin NonceConflictMessages

\* The first attempt threw a nonce conflict and the retry returned a hash.
RetrySucceeded(d) ==
    /\ FirstThrewNonceConflict(d)
    /\ Len(attempts[d]) = 2
    /\ attempts[d][2].ok

\* A sponsorship failure: the submission was rejected (null hash) or the
\* sponsored receipt was confirmed with a status other than success.
SponsorshipFailed(d) ==
    sponsorRejected[d] \/ SponsoredReceipt(d) = "reverted"

\* Sponsorship has rejected every submission made so far.
AllSponsoredRejected ==
    \A d \in Dispatches : \A i \in 1..Len(attempts[d]) : ~attempts[d][i].ok

\* C1: no two submission calls (smartAccountClient.sendTransaction or
\* sessionSigner.sendTransaction) of dispatches on the same client are ever
\* outstanding at the same time.  The regular flow does not go through
\* nonceQueue, so this is violated.
C1_NoOverlappingSubmissions == Cardinality(Submitting) <= 1

\* C2: tasks chained on nonceQueue start and settle in the order they were
\* chained, and at most one task is running at any time: a task starts only
\* after every task chained before it has settled (by success, by failure
\* or by failed retry).  A task whose catch block threw has started and
\* never settles.
C2_LaneOrder ==
    /\ IsPrefix(startOrder, enqOrder)
    /\ IsPrefix(settleOrder, startOrder)
    /\ Len(startOrder) <= Len(settleOrder) + 1
    /\ {d \in Dispatches : pc[d] \in TaskStates \cup {"catchThrew"}}
         = {startOrder[i] : i \in (Len(settleOrder) + 1)..Len(startOrder)}

\* Two tasks have settled in order, the first of them by a failed retry.
C2_Witness ==
    /\ Len(settleOrder) >= 2
    /\ Len(attempts[settleOrder[1]]) = 2
    /\ sponsorRejected[settleOrder[1]]

\* C3: a hash returned by sendTransaction is a hash the dispatch broadcast
\* and whose receipt was seen with status success; a hash whose receipt was
\* seen with another status is never returned.
C3_ReturnedHashConfirmed ==
    \A d \in Dispatches :
        /\ pc[d] = "succeeded" <=> result[d] # NoHash
        /\ result[d] # NoHash =>
             /\ result[d] \in {sponsoredHash[d], hash[d]}
             /\ receipt[result[d]] = "success"
        /\ \A h \in Hashes : receipt[h] = "reverted" => result[d] # h

\* A dispatch returned its direct hash after its sponsored hash reverted,
\* and another dispatch threw on a reverted direct receipt.
C3_Witness ==
    \E d, e \in Dispatches :
        /\ SponsoredReceipt(d) = "reverted"
        /\ pc[d] = "succeeded"
        /\ result[d] = hash[d]
        /\ DirectReceipt(e) = "reverted"
        /\ pc[e] = "failed"

C6_RetryOnceOnNonceConflict ==
    \A d \in Dispatches :
        /\ nSponsored[d] <= 2
        /\ Len(attempts[d]) <= 2
        /\ nSponsored[d] = 2 =>
             FirstThrewNonceConflict(d) /\ backoff[d] = RetryBackoffMs
        /\ FirstThrewNonceConflict(d) =>
             \/ pc[d] = "retryBackoff" /\ nSponsored[d] = 1
             \/ nSponsored[d] = 2
        /\ FirstThrewOther(d) =>
             /\ nSponsored[d] = 1
             /\ backoff[d] = 0
             /\ IF attempts[d][1].searchable
                  THEN sponsorRejected[d]
                  ELSE pc[d] = "catchThrew" /\ ~sponsorRejected[d]
        /\ (Len(attempts[d]) = 2 /\ ~attempts[d][2].ok) =>
             /\ sponsorRejected[d]
             /\ pc[d] \notin TaskStates \cup {"queued"}

\* One dispatch's retry failed with another nonce conflict, and another
\* dispatch's first attempt failed with a message that is not one.
C6_Witness ==
    \E d, e \in Dispatches :
        /\ Len(attempts[d]) = 2
        /\ ~attempts[d][2].ok
        /\ attempts[d][2].message = MsgNonce
        /\ pc[d] \in Terminal
        /\ FirstThrewOther(e)
        /\ attempts[e][1].message = MsgUpperNonce
        /\ pc[e] \in Terminal

\* C7 as stated: once the retry after a nonce conflict has returned a hash,
\* the dispatch ends succeeded with that hash and the regular flow is never
\* invoked.  Violated when the retry's receipt is not success.
C7_RetrySuccessNeverFallsBack ==
    \A d \in Dispatches :
        RetrySucceeded(d) =>
            /\ nFeeEst[d] = 0 /\ nGasEst[d] = 0 /\ nDirect[d] = 0
            /\ pc[d] \in Terminal =>
                 pc[d] = "succeeded" /\ result[d] = HashOf(d, 2)

\* C7 as amended: when the first sponsored attempt throws a nonce conflict,
\* the retry returns a hash and that hash's receipt is confirmed with status
\* success, the dispatch succeeds, returns the retry's hash, and fee
\* estimation, gas estimation and signer submission are never invoked.
C7_RetrySuccessConfirmed ==
    \A d \in Dispatches :
        RetrySucceeded(d) =>
            /\ sponsoredHash[d] = HashOf(d, 2)
            /\ SponsoredReceipt(d) = "none" =>
                 nFeeEst[d] = 0 /\ nGasEst[d] = 0 /\ nDirect[d] = 0
            /\ SponsoredReceipt(d) = "success" =>
                 /\ pc[d] = "succeeded"
                 /\ result[d] = HashOf(d, 2)
                 /\ nFeeEst[d] = 0 /\ nGasEst[d] = 0 /\ nDirect[d] = 0
                 /\ hash[d] = NoHash

\* A dispatch returned the hash of its retry.
C7_Witness ==
    \E d \in Dispatches :
        /\ RetrySucceeded(d)
        /\ SponsoredReceipt(d) = "success"
        /\ pc[d] = "succeeded"

\* C8: a direct receipt with a failure status makes sendTransaction throw
\* Error('Transaction failed'), and from then on the dispatch makes no
\* further call: no estimation, no direct and no sponsored submission.
C8_DirectReceiptFailureTerminal ==
    /\ [](\A d \in Dispatches :
            DirectReceipt(d) = "reverted" =>
                /\ pc[d] = "failed"
                /\ error[d] = "Transaction failed"
                /\ result[d] = NoHash
                /\ nDirect[d] = 1)
    /\ [][\A d \in Dispatches :
            DirectReceipt(d) = "reverted" =>
                /\ pc'[d] = pc[d]
                /\ nFeeEst'[d] = nFeeEst[d]
                /\ nGasEst'[d] = nGasEst[d]
                /\ nDirect'[d] = nDirect[d]
                /\ nSponsored'[d] = nSponsored[d]
                /\ error'[d] = error[d]]_vars

\* A dispatch failed on a reverted direct receipt while another dispatch
\* went on to finish after it.
C8_Witness ==
    \E d, e \in Dispatches :
        /\ d < e
        /\ DirectReceipt(d) = "reverted"
        /\ pc[d] = "failed"
        /\ pc[e] = "succeeded"

\* C9: of the transactions one dispatch broadcasts, at most one is seen
\* confirmed with status success; a dispatch that succeeded has exactly one,
\* and it is the hash it returned.
C9_OneConfirmedBroadcast ==
    \A d \in Dispatches :
        /\ Cardinality(Confirmed(d)) <= 1
        /\ pc[d] = "succeeded" =>
             \E k \in 1..3 : Confirmed(d) = {k} /\ result[d] = HashOf(d, k)

\* A dispatch succeeded after three submission calls: sponsored attempt,
\* sponsored retry (whose receipt reverted) and direct submission.
C9_Witness ==
    \E d \in Dispatches :
        /\ nSponsored[d] = 2
        /\ SponsoredReceipt(d) = "reverted"
        /\ nDirect[d] = 1
        /\ pc[d] = "succeeded"

\* C10: a dispatch is chained on the sponsored path only if, when called,
\* the sponsorship manager is set and initialized and forceEOA is false; in
\* every other case the call goes straight to fee estimation, which is then
\* the dispatch's first external call, and the dispatch never makes a
\* sponsored submission.
C10_PathSelection ==
    /\ [][\A d \in Dispatches :
            (pc[d] = "idle" /\ pc'[d] # "idle") =>
                IF ~forceEOA'[d] /\ gasSponsorshipManager /\ smartAccountClient
                  THEN pc'[d] = "queued" /\ firstCall'[d] = "none"
                  ELSE /\ pc'[d] = "estimateFees"
                       /\ firstCall'[d] = "estimateFeesPerGas"]_vars
    /\ [](\A d \in Dispatches :
            /\ (d \in Range(enqOrder) \/ nSponsored[d] > 0) =>
                 /\ ~forceEOA[d]
                 /\ gasSponsorshipManager /\ smartAccountClient
                 /\ firstCall[d] \in {"none", "smartAccountClient.sendTransaction"}
            /\ firstCall[d] = "estimateFeesPerGas" =>
                 /\ nSponsored[d] = 0
                 /\ d \notin Range(enqOrder)
                 /\ pc[d] \in DirectStates \cup Terminal)

\* With sponsorship initialized, one dispatch was forced onto the regular
\* flow and another took the sponsored path.
C10_Witness ==
    \E d, e \in Dispatches :
        /\ smartAccountClient
        /\ forceEOA[d] /\ firstCall[d] = "estimateFeesPerGas"
        /\ pc[d] \in Terminal
        /\ ~forceEOA[e] /\ nSponsored[e] > 0

(***************************************************************************)
(* Fee estimation.                                                         *)
(***************************************************************************)
\* A provided value, 0 included, and the default only when none is provided.
OrElse_Nullish(o, default) == IF o = {} THEN default ELSE TheValue(o)

\* The fee the estimator contract gives: a provided override, 0 included,
\* replaces the live fee, and the multiplier is used as configured.
ContractFee(cfg, base, priority) ==
    OrElse_Nullish(cfg.maxFeePerGas, base) +
    OrElse_Nullish(cfg.maxPriorityFeePerGas, priority) *
        Max(0, OrElse_Nullish(cfg.priorityFeeMultiplier,
                              DefaultPriorityFeeMultiplier) - 1)

\* C11: for every live base fee, live priority fee, optional overrides (0
\* allowed) and multiplier >= 0, calculateGasFees returns (override max fee
\* if provided else live base fee) + (override priority fee if provided else
\* live priority fee) * max(0, multiplier - 1).
C11_FeeFormula ==
    (/\ fee.pc = "returned"
     /\ fee.config.priorityFeeMultiplier \in OptionalOf(0..MaxMultiplier))
    => fee.finalMaxFeePerGas =
           ContractFee(fee.config, fee.maxFeePerGas, fee.maxPriorityFeePerGas)

\* C12: with multiplier 1 calculateGasFees returns the override max fee when
\* one is configured (0 allowed) and the live base fee otherwise, whatever
\* the priority fee.
C12_MultiplierOne ==
    (fee.pc = "returned" /\ fee.config.priorityFeeMultiplier = {1})
    => fee.finalMaxFeePerGas =
           OrElse_Nullish(fee.config.maxFeePerGas, fee.maxFeePerGas)

(***************************************************************************)
(* The sponsored lane: delay, draining, pendingNonce.                      *)
(***************************************************************************)
\* The tasks of the lane that started after another task of the lane.
LaterTasks == {startOrder[i] : i \in 2..Len(startOrder)}

\* C13: every task that starts after another task of the same lane waits at
\* least 500 ms before its submission starts, whether the earlier tasks
\* succeeded or failed.
C13_DelayBetweenTasks ==
    \A d \in LaterTasks :
        nSponsored[d] >= 1 => waited[d] >= NonceDelayMs

\* The number of sponsored submission calls that returned a hash.
SuccessfulSubmissions ==
    Cardinality({d \in Dispatches : sponsoredHash[d] # NoHash})

\* C15: pendingNonce never decreases; it grows by exactly one when a task's
\* sponsored submission returns a hash (first attempt or retry) and is left
\* alone by a task that fails; it always equals the number of successful
\* sponsored submissions; and no submission call is given a nonce.
C15_PendingNonceCounts ==
    /\ [](pendingNonce = SuccessfulSubmissions)
    /\ [](\A d \in Dispatches : \A i \in 1..Len(attempts[d]) :
            /\ "nonce" \notin attempts[d][i].params
            /\ attempts[d][i].ok => i = Len(attempts[d]))
    /\ [][/\ pendingNonce' \in {pendingNonce, pendingNonce + 1}
          /\ \A d \in Dispatches :
               /\ (Len(attempts'[d]) > Len(attempts[d]) /\
                   attempts'[d][Len(attempts'[d])].ok)
                  => pendingNonce' = pendingNonce + 1
               /\ (d \notin Range(settleOrder) /\ d \in Range(settleOrder') /\
                   sponsorRejected'[d])
                  => pendingNonce' = pendingNonce]_vars

\* Two tasks have settled, one whose retry returned a hash and one that
\* failed, and pendingNonce is 1.
C15_Witness ==
    \E d, e \in Dispatches :
        /\ RetrySucceeded(d)
        /\ sponsorRejected[e]
        /\ {d, e} \subseteq Range(settleOrder)
        /\ pendingNonce = 1

(***************************************************************************)
(* Lanes of different authorities.                                         *)
(***************************************************************************)
LaneSettled ==
    {"resolvedHash", "resolvedHashOnRetry", "resolvedNull",
     "resolvedNullOnRetry"}

\* C14: when every submission call returns or throws, every task chained on
\* a lane eventually settles, also when a task chained before it failed on
\* its first attempt or on its retry.  Violated: after a first attempt that
\* threw a value the catch block cannot search, the task and every task
\* chained behind it never settle.
C14_LaneDrains ==
    \A m \in Managers : \A t \in LaneTasks :
        (lanes.task[<<m, t>>] = "queued") ~> (lanes.task[<<m, t>>] \in LaneSettled)

\* The tasks of manager m called before task t have all settled.
LanePredecessorsSettled(m, t) ==
    \A u \in 1..(t - 1) :
        lanes.task[<<m, u>>] \in LaneSettled \cup {"returnedNull"}

\* C16: a task on one authority's lane is never delayed, reordered or failed
\* by the other authority's lane: a queued task whose own predecessors have
\* settled can start whatever the state of the other lane, and a step of one
\* manager's task changes no task, queue or counter of the other manager.
C16_LanesIndependent ==
    /\ [](\A m \in Managers : \A t \in LaneTasks :
             (lanes.task[<<m, t>>] = "queued" /\ LanePredecessorsSettled(m, t))
             => ENABLED LaneTaskStart(m, t))
    /\ [][\A m \in Managers : \A t \in LaneTasks :
             lanes'.task[<<m, t>>] # lanes.task[<<m, t>>]
             => \A n \in Managers \ {m} :
                  /\ \A u \in LaneTasks :
                       lanes'.task[<<n, u>>] = lanes.task[<<n, u>>]
                  /\ lanes'.nonceQueue[n] = lanes.nonceQueue[n]
                  /\ lanes'.pendingNonce[n] = lanes.pendingNonce[n]]_vars

\* Every task of one manager has settled with a hash while the first task of
\* the other manager, chained before them, is still in its submission call.
C16_Witness ==
    \E m \in Managers : \E n \in Managers \ {m} :
        /\ lanes.pc = "run"
        /\ lanes.task[<<m, 1>>] = "sponsoredSend"
        /\ lanes.task[<<m, 2>>] = "queued"
        /\ \A u \in LaneTasks : lanes.task[<<n, u>>] = "resolvedHash"

(***************************************************************************)
(* Batch dispatch.                                                         *)
(***************************************************************************)
\* The positions of the trace at which transaction i made call c.
BatchTraceOf(i, c) ==
    {j \in 1..Len(batch.trace) :
        batch.trace[j].tx = i /\ batch.trace[j].call = c}

\* C17: the transactions of a batch run one after the other: a call for
\* transaction i+1 is made only after transaction i was confirmed
\* successful, and no call is made twice for a transaction; when the k-th
\* transaction fails, no call is ever made for k+1..n, exactly k-1
\* transactions were confirmed, and the error names position k.
C17_BatchSequential ==
    /\ \A j \in 1..Len(batch.trace) :
         batch.trace[j].tx > 1 =>
            \E c \in 1..(j - 1) :
                /\ batch.trace[c].tx = batch.trace[j].tx - 1
                /\ batch.trace[c].call = "confirmed"
    /\ \A i \in BatchSizes : \A k \in 1..Len(BatchCalls) :
         Cardinality(BatchTraceOf(i, BatchCalls[k])) <= 1
    /\ batch.pc = "threw" =>
         /\ batch.error.position = batch.tx
         /\ \A j \in 1..Len(batch.trace) : batch.trace[j].tx <= batch.tx
         /\ BatchTraceOf(batch.tx, "confirmed") = {}
         /\ Len(batch.hashes) = batch.tx - 1
         /\ \A i \in 1..(batch.tx - 1) :
              Cardinality(BatchTraceOf(i, "confirmed")) = 1
    /\ batch.pc = "returned" => Len(batch.hashes) = batch.n

\* The second of three transactions was submitted and its receipt reverted.
C17_Witness ==
    /\ batch.pc = "threw"
    /\ batch.n = 3
    /\ batch.tx = 2
    /\ batch.error.cause = "Transaction failed"

(***************************************************************************)
(* Identifier recovery.                                                    *)
(***************************************************************************)
\* Two characters that differ at most in case.
SameLetter(a, b) ==
    \/ a = b
    \/ \E p \in {<<"a", "A">>, <<"b", "B">>, <<"c", "C">>, <<"d", "D">>,
                 <<"e", "E">>, <<"f", "F">>, <<"x", "X">>} :
          {a, b} = {p[1], p[2]}

\* The log comes from the contract address, compared without regard to case.
FromContract(log) ==
    /\ Len(log.address) = Len(contractAddress)
    /\ \A i \in 1..Len(contractAddress) :
          SameLetter(log.address[i], contractAddress[i])

\* Log i is the first log of the receipt that comes from the contract.
FirstContractLog(i) ==
    /\ i \in 1..Len(recovery.logs)
    /\ FromContract(recovery.logs[i])
    /\ \A j \in 1..(i - 1) : ~FromContract(recovery.logs[j])

\* The operation has received the receipt of its transaction.
ReceiptRead ==
    /\ recovery.pc \in {"returned", "threw"}
    /\ recovery.message \notin {<<"getTransactionReceipt">>,
                                <<CreateJobPrefix, "getTransactionReceipt">>,
                                <<CreateJobPrefix, "sendTransaction">>}

\* The number that the data of a log encodes: 42, 7, or none when the data
\* holds no digit.
EncodedNumber(data) ==
    CASE data = <<"0", "x", "2", "a">> -> 42
      [] data = <<"0", "x", "0", "7">> -> 7
      [] OTHER -> -1

\* C18: createJob returns the hash of its dispatch with the job id decoded
\* from the data of the first log whose address is the contract address
\* without regard to case, whatever logs of other addresses precede it and
\* whatever logs follow it; with no such log it throws the error of the
\* missing log and returns no id; when the data of that log encodes no
\* number it throws as well and returns no id; a receipt whose only log is
\* a contract log encoding 42 gives jobId 42.
C18_JobIdRecovery ==
    (recovery.op = "createJob" /\ ReceiptRead) =>
        /\ recovery.pc = "returned" <=>
              \E i \in 1..MaxLogs :
                 /\ FirstContractLog(i)
                 /\ EncodedNumber(recovery.logs[i].data) >= 0
        /\ \A i \in 1..MaxLogs :
             FirstContractLog(i) =>
                IF EncodedNumber(recovery.logs[i].data) >= 0
                  THEN /\ recovery.value =
                            [type |-> "number",
                             value |-> EncodedNumber(recovery.logs[i].data)]
                       /\ recovery.txHash \in Hashes
                  ELSE /\ recovery.pc = "threw"
                       /\ recovery.message = <<CreateJobPrefix, "fromHex">>
        /\ (\A i \in 1..MaxLogs : ~FirstContractLog(i)) =>
             /\ recovery.pc = "threw"
             /\ recovery.message = <<CreateJobPrefix, NoLogsMessage>>
        /\ recovery.pc = "threw" => recovery.value = NoValue

\* createJob returned job id 42 from the second log: the first log is from
\* another address and the second spells the contract address in another
\* case.
C18_Witness ==
    /\ recovery.op = "createJob"
    /\ recovery.pc = "returned"
    /\ Len(recovery.logs) = 2
    /\ recovery.logs[1].address = <<"0", "x", "c", "d">>
    /\ recovery.logs[2].address = <<"0", "x", "a", "B">>
    /\ recovery.value = [type |-> "number", value |-> 42]

\* C19: getMemoId selects the first log of the contract address as job-id
\* recovery does and throws when there is none; it returns the memoId field
\* of the decoded event, and throws, returning no value, when the decoded
\* event has no args.
C19_MemoIdRecovery ==
    (recovery.op = "getMemoId" /\ ReceiptRead) =>
        /\ (\A i \in 1..MaxLogs : ~FirstContractLog(i)) =>
             /\ recovery.pc = "threw"
             /\ recovery.message = <<NoLogsMessage>>
        /\ \A i \in 1..MaxLogs :
             (FirstContractLog(i) /\ ~recovery.logs[i].event.threw) =>
                IF recovery.logs[i].event.hasArgs
                  THEN /\ recovery.pc = "returned"
                       /\ recovery.logs[i].event.memoId = <<"1", "7">>
                            => recovery.value = [type |-> "number", value |-> 17]
                  ELSE /\ recovery.pc = "threw"
                       /\ recovery.message = <<NoArgsMessage>>
                       /\ recovery.value = NoValue

\* getMemoId threw because the first contract log, the second log of the
\* receipt, decodes to an event without args.
C19_Witness ==
    /\ recovery.op = "getMemoId"
    /\ recovery.pc = "threw"
    /\ Len(recovery.logs) = 2
    /\ ~FromContract(recovery.logs[1])
    /\ FromContract(recovery.logs[2])
    /\ ~recovery.logs[2].event.threw
    /\ ~recovery.logs[2].event.hasArgs

(***************************************************************************)
(* Session signer.                                                         *)
(***************************************************************************)
\* C20: when the key is empty or parses neither as PEM nor as tagged
\* base64 DER, a transaction sent through the direct API, which carries the
\* authorization signature, fails with a key-format error before any
\* request is made through fetch.
C20_KeyFormatError ==
    (signer.directAPI /\ (KeyIsEmpty(signer.key) \/ ~KeyParses(signer.key)))
    => /\ signer.pc = "threw"
       /\ signer.error = "KeyFormatError"
       /\ \A i \in 1..Len(signer.requests) : signer.requests[i].via # "fetch"

(***************************************************************************)
(* Authorization signatures.                                               *)
(***************************************************************************)
\* generateAuthorizationSignature has ended, one way or the other.
SigningDone == signing.pc \in {"returned", "undefined", "threw"}

\* C21: each signer accepts a key as PEM and as 'wallet-auth:' base64 DER
\* and signs with the same key in both cases: whenever a signer was given
\* either form of key k it returns a signature made with key k.
C21_BothKeyForms ==
    (SigningDone /\ \E k \in KeyIds : signing.key \in {PemOf(k), WalletAuthOf(k)})
    => /\ signing.pc = "returned"
       /\ signing.signature.signedBy = signing.key.id

\* The values that differ from value at most in the order in which the
\* properties of its objects, at any depth, were added.
RECURSIVE Reorderings(_)
RECURSIVE ReorderedItems(_)
ReorderedItems(items) ==
    IF items = <<>> THEN {<<>>}
    ELSE {<<first>> \o rest : first \in Reorderings(items[1]),
                              rest \in ReorderedItems(Tail(items))}

Reorderings(value) ==
    CASE value.t = "scalar" -> {value}
      [] value.t = "array" -> {Array(items) : items \in ReorderedItems(value.items)}
      [] value.t = "object" ->
            LET n == Len(value.keys)
                orders == {o \in [1..n -> 1..n] :
                              \A i, j \in 1..n : o[i] = o[j] => i = j}
            IN  {FromEntries([i \in 1..n |-> <<value.keys[o[i]], items[o[i]]>>]) :
                    o \in orders, items \in ReorderedItems(value.items)}

\* Two values have the same content: equal scalars, arrays with the same
\* content at every position, objects with the same content under every
\* property name.
RECURSIVE SameContent(_, _)
SameContent(v, w) ==
    /\ v.t = w.t
    /\ CASE v.t = "scalar" -> v.s = w.s
         [] v.t = "array" ->
               /\ Len(v.items) = Len(w.items)
               /\ \A i \in 1..Len(v.items) : SameContent(v.items[i], w.items[i])
         [] v.t = "object" ->
               /\ {v.keys[i] : i \in 1..Len(v.keys)} =
                  {w.keys[i] : i \in 1..Len(w.keys)}
               /\ \A i \in 1..Len(v.keys) :
                     SameContent(v.items[i], GetProperty(w, v.keys[i]))

\* generateAuthorizationSignature got as far as canonicalizing the payload:
\* always in the key manager, and in the session signer unless the key was
\* empty.
Canonicalized ==
    /\ SigningDone
    /\ ~(signing.who = "sessionSigner" /\ KeyIsEmpty(signing.key))

\* C22: canonicalization is idempotent (canonicalizing the parsed canonical
\* text gives the same text), the order in which the properties of any
\* object at any depth were added does not change the canonical text, and
\* arrays keep the order of their elements; this for every payload either
\* signer canonicalizes, whether or not the signing that follows succeeds.
C22_Canonicalization ==
    Canonicalized =>
        /\ canonicalize(parse(signing.payloadString)) = signing.payloadString
        /\ \A body \in Reorderings(signing.body) :
              canonicalize(Payload(SigningMethod(signing.who), body))
                = signing.payloadString
        /\ signing.body = JsonOne =>
              \A payload \in Reorderings(Payload(SigningMethod(signing.who),
                                                 signing.body)) :
                  canonicalize(payload) = signing.payloadString
        /\ SameContent(Payload(SigningMethod(signing.who), signing.body),
                       parse(signing.payloadString))

\* A body was canonicalized whose nested object had its properties added in
\* descending order, beside an array of two different elements.
C22_Witness ==
    /\ signing.pc = "returned"
    /\ signing.body.t = "object"
    /\ signing.body.keys = <<(<<"b">>), (<<"a">>)>>
    /\ signing.body.items[1].t = "object"
    /\ signing.body.items[1].keys = <<(<<"1", "0">>), (<<"b">>)>>
    /\ signing.body.items[2].t = "array"
    /\ Len(signing.body.items[2].items) = 2

\* C23: a wallet never has two authorization keys (key quorums attached as
\* session signers) at the same time, in any state of setupWalletWithAuth,
\* rotateSessionSigner and revokeSessionSigner, between their steps and
\* after a failed step.
C23_OneKeyPerWallet == Cardinality(walletAuth.attached) <= 1

\* C24: every failure of a public operation reaches the caller as an error
\* that carries the operation's name and the message of the underlying
\* failure.
C24_ErrorCarriesCause ==
    operation.pc = "threw" =>
        /\ operation.error.message[1] = FailedTo(operation.op)
        /\ \A i \in 1..Len(operation.failure.message) :
              \E j \in 1..Len(operation.error.message) :
                  operation.error.message[j] = operation.failure.message[i]

\* The failures of the direct path an operation can catch.
OperationFailures ==
    UNION {ThrownBy(call) : call \in {"estimateFeesPerGas", "estimateGas",
                                      "sendTransaction",
                                      "waitForTransactionReceipt"}}
      \cup {TransactionFailed}

\* C25: the error a caller receives for a timeout of the receipt wait is
\* different from the error it receives for a reverted receipt, a rejected
\* submission or a failed estimation.
C25_TimeoutDistinct ==
    (operation.pc = "threw"
       /\ operation.failure \in ThrownBy("waitForTransactionReceipt")) =>
        \A e \in OperationFailures \ ThrownBy("waitForTransactionReceipt") :
            OperationError(operation.op, e) # operation.error

\* The dispatch made no call and changed no outcome in this step.
DispatchQuiet(d) ==
    /\ pc'[d] = pc[d]
    /\ nFeeEst'[d] = nFeeEst[d]
    /\ nGasEst'[d] = nGasEst[d]
    /\ nDirect'[d] = nDirect[d]
    /\ nSponsored'[d] = nSponsored[d]
    /\ error'[d] = error[d]
    /\ result'[d] = result[d]

\* C26: on the direct path the fee query, the gas estimation and the
\* submission to the signing authority are made in this order, each at most
\* once and only after the previous one returned; when the fee query or the
\* gas estimation throws, sendTransaction throws that error, nothing has been
\* submitted to the signing authority, and the dispatch makes no further
\* call.
C26_EstimationFailurePropagates ==
    /\ [](\A d \in Dispatches :
            /\ nDirect[d] <= nGasEst[d]
            /\ nGasEst[d] <= nFeeEst[d]
            /\ nFeeEst[d] <= 1
            /\ hash[d] # NoHash => nDirect[d] = 1
            /\ failedAt[d] = "estimateFees" =>
                  /\ pc[d] = "failed"
                  /\ error[d] = "estimateFeesPerGas"
                  /\ nGasEst[d] = 0
            /\ failedAt[d] = "estimateGas" =>
                  /\ pc[d] = "failed"
                  /\ error[d] = "estimateGas"
                  /\ nGasEst[d] = 1
            /\ failedAt[d] \in {"estimateFees", "estimateGas"} =>
                  /\ result[d] = NoHash
                  /\ nFeeEst[d] = 1
                  /\ nDirect[d] = 0
                  /\ hash[d] = NoHash)
    /\ [][\A d \in Dispatches :
            failedAt[d] \in {"estimateFees", "estimateGas"} =>
                DispatchQuiet(d) /\ hash'[d] = hash[d]]_vars

\* One dispatch failed in the fee query and another, after its sponsored
\* submission was rejected, in the gas estimation.
C26_Witness ==
    \E d, e \in Dispatches :
        /\ failedAt[d] = "estimateFees"
        /\ failedAt[e] = "estimateGas"
        /\ sponsorRejected[e]
        /\ nDirect[d] = 0
        /\ nDirect[e] = 0

\* The positions of a dispatch on the sponsored path.
SponsoredStates == {"queued", "sponsoredReceipt"} \cup TaskStates

\* C27: a dispatch enters the direct path at most once and makes at most one
\* submission to the signing authority; once on the direct path it never
\* goes back to the sponsored path; when the signing authority rejects the
\* direct submission, sendTransaction throws that error and the dispatch
\* makes no further call.
C27_FallbackAtMostOnce ==
    /\ [](\A d \in Dispatches :
            /\ nFeeEst[d] <= 1
            /\ nDirect[d] <= 1
            /\ sponsorRejected[d] => pc[d] \in DirectStates \cup Terminal
            /\ failedAt[d] = "signerSend" =>
                  /\ pc[d] = "failed"
                  /\ error[d] = "sessionSigner.sendTransaction"
                  /\ result[d] = NoHash
                  /\ hash[d] = NoHash
                  /\ nDirect[d] = 1)
    /\ [][\A d \in Dispatches :
            /\ nFeeEst[d] > 0 =>
                  /\ pc'[d] \notin SponsoredStates
                  /\ nSponsored'[d] = nSponsored[d]
                  /\ nFeeEst'[d] = nFeeEst[d]
            /\ failedAt[d] = "signerSend" => DispatchQuiet(d)]_vars

\* A dispatch whose sponsored submission was rejected fell back to the
\* direct path, where the signing authority rejected the submission.
C27_Witness ==
    \E d \in Dispatches :
        /\ sponsorRejected[d]
        /\ nSponsored[d] > 0
        /\ failedAt[d] = "signerSend"
        /\ pc[d] = "failed"

\* The state of the dispatch state machine at each position of
\* sendTransaction; FALLBACK_DIRECT is passed through on the way to
\* ESTIMATE_FEES.
DispatchState(p) ==
    CASE p = "idle" -> "SELECT_PATH"
      [] p \in {"queued", "catchThrew"} \cup TaskStates -> "TRY_SPONSORED"
      [] p = "sponsoredReceipt" -> "CONFIRM_SPONSORED"
      [] p \in {"estimateFees", "estimateGas"} -> "ESTIMATE_FEES"
      [] p = "signerSend" -> "SUBMIT_DIRECT"
      [] p = "directReceipt" -> "CONFIRM_DIRECT"
      [] p = "succeeded" -> "SUCCEEDED"
      [] p = "failed" -> "FAILED"

StatedTransitions ==
    {<<"SELECT_PATH", "TRY_SPONSORED">>, <<"SELECT_PATH", "ESTIMATE_FEES">>,
     <<"TRY_SPONSORED", "CONFIRM_SPONSORED">>,
     <<"CONFIRM_SPONSORED", "SUCCEEDED">>,
     <<"CONFIRM_SPONSORED", "ESTIMATE_FEES">>,
     <<"ESTIMATE_FEES", "SUBMIT_DIRECT">>,
     <<"SUBMIT_DIRECT", "CONFIRM_DIRECT">>,
     <<"CONFIRM_DIRECT", "SUCCEEDED">>, <<"CONFIRM_DIRECT", "FAILED">>}

\* The transitions on a rejected sponsored submission and on a call that
\* throws.
FailureTransitions ==
    {<<"TRY_SPONSORED", "ESTIMATE_FEES">>, <<"CONFIRM_SPONSORED", "FAILED">>,
     <<"ESTIMATE_FEES", "FAILED">>, <<"SUBMIT_DIRECT", "FAILED">>}

\* Every dispatch takes only transitions of the set, and none from a
\* terminal state.
FollowsOnly(transitions) ==
    \A d \in Dispatches :
        /\ DispatchState(pc'[d]) # DispatchState(pc[d]) =>
              <<DispatchState(pc[d]), DispatchState(pc'[d])>> \in transitions
        /\ pc[d] \in Terminal => DispatchQuiet(d)

\* Every dispatch that was called ends, in one terminal state.
DispatchTerminates ==
    \A d \in Dispatches :
        /\ (pc[d] # "idle") ~> (pc[d] \in Terminal)
        /\ [](pc[d] = "succeeded" => result[d] # NoHash /\ error[d] = "none")
        /\ [](pc[d] = "failed" => result[d] = NoHash /\ error[d] # "none")

\* C28: every dispatch starts in SELECT_PATH, follows only the transitions
\* of the state machine, and, every awaited call returning or throwing, a
\* dispatch that was called eventually reaches exactly one of SUCCEEDED and
\* FAILED and takes no step afterwards.  The transitions are those of the
\* stated chain together with the ones error handling adds to it (a
\* rejected sponsored submission goes from TRY_SPONSORED to FALLBACK_DIRECT;
\* a throwing call goes from CONFIRM_SPONSORED, ESTIMATE_FEES or
\* SUBMIT_DIRECT to FAILED), so that only termination is left to fail: a
\* dispatch whose sponsored submission threw a value that the catch block
\* cannot search, and every dispatch chained behind it, stays in
\* TRY_SPONSORED.
C28_StateMachine ==
    /\ \A d \in Dispatches : DispatchState(pc[d]) = "SELECT_PATH"
    /\ [][FollowsOnly(StatedTransitions \cup FailureTransitions)]_vars
    /\ DispatchTerminates

\* C29: once init has completed, the sponsorship manager is set only if the
\* sponsorship endpoints are configured, the signer has custodial
\* credentials and initialize returned true; init completes in every other
\* case too, with the manager unset, and then no dispatch is on the
\* sponsored path or has made a sponsored submission.
C29_NoSponsorshipRoutesDirect ==
    /\ clientPc \in {"constructed", "initializing", "ready"}
    /\ clientPc = "constructed" => ENABLED ClientInit
    /\ clientPc = "initializing" => ENABLED InitializeReturn
    /\ clientPc = "ready" =>
          (gasSponsorshipManager <=>
              config.sponsorUrls /\ config.privyCredentials /\ smartAccountClient)
    /\ (clientPc = "ready" /\ ~gasSponsorshipManager) =>
          \A d \in Dispatches :
              /\ pc[d] \notin SponsoredStates
              /\ nSponsored[d] = 0
              /\ sponsoredHash[d] = NoHash
              /\ firstCall[d] \in {"none", "estimateFeesPerGas"}

\* Sponsorship was configured and its initialization failed; init completed
\* and a dispatch succeeded on the direct path.
C29_Witness ==
    /\ clientPc = "ready"
    /\ config.sponsorUrls
    /\ config.privyCredentials
    /\ ~gasSponsorshipManager
    /\ \E d \in Dispatches : pc[d] = "succeeded" /\ nDirect[d] = 1

\* C30: when the custodial service rejects a transaction with an
\* authorization error, the error sendTransaction throws is the
\* 'Authorization failed' error with the three remediation hints.
C30_AuthorizationHints ==
    (signer.pc = "threw" /\ signer.response = "unauthorized")
        => signer.error = AuthorizationFailed

----
\* C32: when the receipt wait for a sponsored transaction throws, the
\* dispatch fails with that error and no call of the regular flow has been
\* made; a dispatch that took the sponsored path reaches the regular flow
\* only after sendSponsoredTransaction resolved null or after a receipt was
\* returned whose status is not success.
C32_ReceiptWaitThrowIsFatal ==
    \A d \in Dispatches :
        /\ failedAt[d] = "sponsoredReceipt" =>
             /\ pc[d] = "failed"
             /\ error[d] = "waitForTransactionReceipt"
             /\ nFeeEst[d] = 0 /\ nGasEst[d] = 0 /\ nDirect[d] = 0
        /\ (nSponsored[d] > 0 /\ nFeeEst[d] > 0) =>
             \/ sponsoredHash[d] = NoHash /\ sponsorRejected[d]
             \/ /\ sponsoredHash[d] # NoHash
                /\ receipt[sponsoredHash[d]] = "reverted"

\* A sponsored hash was obtained and the wait for its receipt threw.
C32_Witness ==
    \E d \in Dispatches :
        /\ failedAt[d] = "sponsoredReceipt"
        /\ sponsoredHash[d] # NoHash
        /\ receipt[sponsoredHash[d]] = "none"
        /\ error[d] = "waitForTransactionReceipt"

----
\* C34: one dispatch makes at most three submission calls: at most two
\* calls of smartAccountClient.sendTransaction, the second only after the
\* first threw a nonce conflict, and at most one call of
\* sessionSigner.sendTransaction, which is made only when every sponsored
\* call of the dispatch has returned or thrown and its task has settled;
\* after it no sponsored call is made.
C34_AtMostThreeSubmissions ==
    /\ [](\A d \in Dispatches :
            /\ nSponsored[d] <= 2
            /\ nDirect[d] <= 1
            /\ nSponsored[d] + nDirect[d] <= 3
            /\ nSponsored[d] = 2 =>
                  /\ Len(attempts[d]) >= 1
                  /\ ~attempts[d][1].ok
                  /\ IsNonceError(attempts[d][1].message)
            /\ nDirect[d] > 0 =>
                  /\ pc[d] \notin SponsoredStates
                  /\ Len(attempts[d]) = nSponsored[d]
                  /\ \A i \in 1..Len(nonceQueue) : nonceQueue[i] # d)
    /\ [][\A d \in Dispatches :
            nDirect[d] > 0 => nSponsored'[d] = nSponsored[d]]_vars

\* A dispatch made all three submissions: the first sponsored call threw a
\* nonce conflict, the retry threw as well, and the direct submission
\* followed.
C34_Witness ==
    \E d \in Dispatches :
        /\ nSponsored[d] = 2
        /\ nDirect[d] = 1
        /\ Len(attempts[d]) = 2
        /\ ~attempts[d][2].ok

----
\* What the promise of a sendSponsoredTransaction call can be: not yet
\* settled, resolved with a hash, or resolved with null.
LanePending == {"queued"} \cup TaskStates

LaneResolvedHash == {"resolvedHash", "resolvedHashOnRetry"}

LaneResolvedNull == {"resolvedNull", "resolvedNullOnRetry", "returnedNull"}

\* C33: the promise of sendSponsoredTransaction is pending exactly while its
\* callback is on the lane and otherwise resolved with a hash or with null,
\* never rejected; every return or throw of a submission call either starts
\* the one retry or resolves the promise (a hash when the call returned,
\* null when it threw); a call made while smartAccountClient is not set
\* resolves null at once and leaves the lane and pendingNonce untouched.
\* Violated: a first attempt that threw a value the catch block cannot
\* search leaves the promise pending for ever, with its callback rejected.
C33_NeverRejects ==
    /\ [](\A m \in Managers : \A t \in LaneTasks :
            /\ lanes.task[<<m, t>>] \in
                 {"idle"} \cup LanePending \cup LaneResolvedHash
                          \cup LaneResolvedNull
            /\ lanes.task[<<m, t>>] \in LanePending
                 <=> \E i \in 1..Len(lanes.nonceQueue[m]) :
                        lanes.nonceQueue[m][i] = <<m, t>>)
    /\ [][\A m \in Managers : \A t \in LaneTasks :
            LET before == lanes.task[<<m, t>>]
                after == lanes'.task[<<m, t>>]
            IN  /\ (before \in SponsoredSubmitStates /\ after # before) =>
                      \/ before = "sponsoredSend" /\ after = "retryBackoff"
                      \/ after \in LaneResolvedHash \cup LaneResolvedNull
                /\ (before = "idle" /\ after # "idle"
                    /\ lanes.init[m] # "ready") =>
                      /\ after = "returnedNull"
                      /\ lanes'.nonceQueue = lanes.nonceQueue
                      /\ lanes'.pendingNonce = lanes.pendingNonce
                /\ after = "returnedNull" =>
                      before = "returnedNull" \/ lanes.init[m] # "ready"
                /\ before \in LaneResolvedHash \cup LaneResolvedNull =>
                      after = before]_vars

----
\* C35: in rotateSessionSigner the new key quorum exists and is attached to
\* the wallet while the old one is still attached, before the removal of
\* the old one is requested; the new configuration is returned only after
\* the old session signer was removed from the wallet; a failed deletion of
\* the old key quorum still returns the new configuration; a failed removal
\* of the old session signer makes the rotation throw with both key quorums
\* attached and the old configuration still held.
C35_RotationOrdering ==
    /\ [](walletAuth.pc # "rest" /\ walletAuth.op = "rotate" =>
            /\ walletAuth.pc = "removeSessionSigner" =>
                  {walletAuth.old, walletAuth.new} \subseteq walletAuth.attached
            /\ walletAuth.pc \in {"removeSessionSigner", "deleteKeyQuorum"} =>
                  /\ walletAuth.new \in walletAuth.quorums
                  /\ walletAuth.new \in walletAuth.attached
                  /\ walletAuth.new # walletAuth.old
            /\ walletAuth.pc = "deleteKeyQuorum" =>
                  walletAuth.old \notin walletAuth.attached)
    /\ [][walletAuth.pc # "rest" /\ walletAuth.op = "rotate" =>
            /\ walletAuth'.config # walletAuth.config =>
                  /\ walletAuth'.config = walletAuth.new
                  /\ walletAuth'.outcome = "returned"
                  /\ walletAuth.old \notin walletAuth'.attached
                  /\ walletAuth.new \in walletAuth'.attached
            /\ (walletAuth.pc = "deleteKeyQuorum" /\ walletAuth' # walletAuth) =>
                  /\ walletAuth'.outcome = "returned"
                  /\ walletAuth'.config = walletAuth.new
            /\ (walletAuth.pc = "removeSessionSigner"
                /\ walletAuth.old \in walletAuth'.attached
                /\ walletAuth' # walletAuth) =>
                  /\ walletAuth'.outcome = "threw"
                  /\ walletAuth'.config = walletAuth.old
                  /\ walletAuth.new \in walletAuth'.attached]_vars

\* An earlier operation returned although its old key quorum could not be
\* deleted, and a rotation threw at the removal of the old session signer:
\* the old configuration is held and both key quorums are attached.
C35_Witness ==
    /\ walletAuth.pc = "idle"
    /\ walletAuth.outcome = "threw"
    /\ walletAuth.config = walletAuth.old
    /\ walletAuth.attached = {walletAuth.old, walletAuth.new}
    /\ walletAuth.new # walletAuth.old
    /\ \E q \in walletAuth.quorums :
          q \notin walletAuth.attached /\ q < walletAuth.old

----
\* C38: one sendTransaction call of the signer with the REST fallback makes
\* at most two submissions, at most one through the SDK and at most one
\* through the REST endpoint, the REST one only after the SDK try block
\* threw; a REST submission that does not yield a hash makes sendTransaction
\* throw; and every throw of the SDK submission is followed by the REST
\* submission of the same transaction.
C38_AtMostTwoSubmissions ==
    /\ [](signer.pc # "rest" =>
            /\ signer.requests \in
                 {<<>>, <<[via |-> "sdk", signed |-> FALSE]>>} \cup
                 {<<[via |-> "fetch", signed |-> b]>> : b \in BOOLEAN} \cup
                 {<<[via |-> "sdk", signed |-> FALSE],
                    [via |-> "fetch", signed |-> b]>> : b \in BOOLEAN}
            /\ (\E i \in 1..Len(signer.requests) :
                   signer.requests[i].via = "fetch") <=> signer.directAPI
            /\ signer.response \notin {"none", "hash"} =>
                  signer.pc = "threw" /\ signer.error # "none"
            /\ signer.pc = "returned" /\ signer.directAPI =>
                  signer.response = "hash")
    /\ [][(signer.pc = "sdkSend" /\ signer'.pc # "sdkSend") =>
            \/ signer'.pc = "returned" /\ signer'.requests = signer.requests
            \/ /\ signer'.pc = "fetch"
               /\ signer'.directAPI
               /\ Len(signer'.requests) = 2
               /\ signer'.requests[2].via = "fetch"]_vars

\* The SDK submission threw, the REST submission was made and its response
\* was not ok: sendTransaction threw after two submissions.
C38_Witness ==
    /\ signer.pc = "threw"
    /\ Len(signer.requests) = 2
    /\ signer.requests[1].via = "sdk"
    /\ signer.requests[2].via = "fetch"
    /\ signer.response = "notOk"
    /\ signer.error = "Privy transaction failed"

----
\* The values held by the store.
StoredConfigs == {store.entries[i].value : i \in 1..Len(store.entries)}

\* C36: after any sequence of save and delete the store holds exactly one
\* entry for every wallet id saved and not deleted since, with the config
\* saved last; get(id) returns that config or undefined; getByAddress(a)
\* returns a stored config whose walletAddress is exactly a, or undefined
\* when no stored config has that address; delete(id) changes no other
\* wallet id's entry; get, getByAddress and getAll leave the store as it is.
C36_StoreIsMap ==
    /\ [](store.pc = "run" =>
            /\ \A id \in WalletIds :
                  /\ Cardinality(MapPositions(store.entries, id)) <= 1
                  /\ MapHas(store.entries, id) <=> store.saved[id] # NoConfig
                  /\ MapHas(store.entries, id) =>
                        store.entries[CHOOSE i \in 1..Len(store.entries) :
                                         store.entries[i].key = id].value
                          = store.saved[id]
            /\ \A i \in 1..Len(store.entries) :
                  store.entries[i].key \in WalletIds)
    /\ [][(store.pc = "run" /\ store'.calls # store.calls) =>
            LET call == store'.last
            IN  /\ call.op = "get" =>
                      /\ call.result = <<store.saved[call.id]>>
                      /\ store'.entries = store.entries
                /\ call.op = "getByAddress" =>
                      /\ call.result[1] \in StoredConfigs \cup {NoConfig}
                      /\ call.result[1] # NoConfig =>
                            call.result[1].walletAddress = call.address
                      /\ call.result[1] = NoConfig =>
                            \A c \in StoredConfigs :
                                c.walletAddress # call.address
                      /\ store'.entries = store.entries
                /\ call.op = "getAll" =>
                      /\ {call.result[i] : i \in 1..Len(call.result)}
                            = StoredConfigs
                      /\ Len(call.result) = Len(store.entries)
                      /\ store'.entries = store.entries
                /\ call.op = "delete" =>
                      /\ ~MapHas(store'.entries, call.id)
                      /\ \A id \in WalletIds \ {call.id} :
                            MapGet(store'.entries, id)
                              = MapGet(store.entries, id)
                /\ call.op = "save" =>
                      /\ MapGet(store'.entries, call.id) = call.config
                      /\ \A id \in WalletIds \ {call.id} :
                            MapGet(store'.entries, id)
                              = MapGet(store.entries, id)]_vars

\* A config was saved over a different config of the same wallet id while
\* the other wallet id holds a config whose address differs from it only in
\* case.
C36_Witness ==
    /\ store.pc = "run"
    /\ store.last.op = "save"
    /\ store.last.result # <<NoConfig>>
    /\ store.last.result # <<store.last.config>>
    /\ Len(store.entries) = 2
    /\ store.entries[1].value.walletAddress
          # store.entries[2].value.walletAddress

----
\* The amount a submitted request moves: the value of a native transfer,
\* the amount argument of an ERC20 transfer call.
RequestAmount(request) ==
    IF request.data = NoCallData THEN request.value ELSE request.data.amount

\* C37: transferAllBalance submits at most one transaction, and never one
\* that moves nothing or more than the balance; with a balance of 0 it
\* throws without submitting; for the native token with keepGasReserve > 0
\* it throws without submitting when the balance is not above the reserve
\* and otherwise sends exactly balance - keepGasReserve to the recipient;
\* for an ERC20 token it ignores the reserve and transfers exactly the
\* balance.
C37_TransferAllBalance ==
    (transfer.pc # "rest" /\ transfer.read) =>
        LET native == NoTokenAddress(transfer.tokenAddress)
            reserved == native /\ transfer.keepGasReserve > 0
        IN  /\ Len(transfer.requests) <= 1
            /\ \A i \in 1..Len(transfer.requests) :
                  /\ RequestAmount(transfer.requests[i]) > 0
                  /\ RequestAmount(transfer.requests[i]) <= transfer.balance
            /\ transfer.balance = 0 =>
                  /\ transfer.requests = <<>>
                  /\ transfer.pc = "threw"
                  /\ transfer.error = "No balance to transfer"
            /\ (reserved /\ transfer.balance > 0
                /\ transfer.balance <= transfer.keepGasReserve) =>
                  /\ transfer.requests = <<>>
                  /\ transfer.pc = "threw"
                  /\ transfer.error =
                        "Balance is less than or equal to gas reserve"
            /\ (reserved /\ transfer.balance > transfer.keepGasReserve) =>
                  transfer.requests =
                     <<[to |-> transfer.toAddress,
                        value |-> transfer.balance - transfer.keepGasReserve,
                        data |-> NoCallData]>>
            /\ (~native /\ transfer.balance > 0) =>
                  transfer.requests =
                     <<[to |-> transfer.tokenAddress, value |-> 0,
                        data |-> TransferCall(transfer.toAddress,
                                              transfer.balance)]>>

\* A native transfer with a reserve below the balance was submitted and
\* returned its hash.
C37_Witness ==
    /\ transfer.pc = "returned"
    /\ NoTokenAddress(transfer.tokenAddress)
    /\ transfer.keepGasReserve > 0
    /\ transfer.balance > transfer.keepGasReserve
    /\ Len(transfer.requests) = 1
    /\ transfer.requests[1].value = transfer.balance - transfer.keepGasReserve

----
\* C39: createMultipleJobs returns results only when every transaction of
\* the batch was confirmed and every job id was recovered, and then the
\* i-th result holds the hash of the i-th transaction and the job id read
\* from the receipt of that hash; when a transaction or a recovery fails it
\* throws and no result is returned, also when transactions were confirmed
\* before and when other recoveries succeed afterwards.
C39_AllOrNothingInOrder ==
    jobs.pc # "rest" =>
        /\ jobs.pc = "returned" =>
              /\ Len(jobs.hashes) = jobs.n
              /\ Len(jobs.results) = jobs.n
              /\ \A i \in 1..jobs.n :
                    /\ jobs.results[i].txHash = jobs.hashes[i]
                    /\ Len(jobs.receipts[i]) = 1
                    /\ FromContract(jobs.receipts[i][1])
                    /\ EncodedNumber(jobs.receipts[i][1].data) >= 0
                    /\ jobs.results[i].jobId =
                          [type |-> "number",
                           value |-> EncodedNumber(jobs.receipts[i][1].data)]
        /\ jobs.pc # "returned" => jobs.results = <<>>
        /\ (\E i \in 1..Len(jobs.recovered) :
               jobs.recovered[i].state = "rejected") =>
              jobs.pc = "threw" /\ jobs.error # <<>>
        /\ jobs.pc = "threw" =>
              \/ Len(jobs.hashes) < jobs.n
              \/ \E i \in 1..Len(jobs.recovered) :
                    jobs.recovered[i].state = "rejected"

\* Two jobs whose recoveries fulfilled in the reverse of the input order,
\* with different job ids, were returned.
C39_Witness ==
    /\ jobs.pc = "returned"
    /\ jobs.n >= 2
    /\ jobs.order[1] > jobs.order[2]
    /\ jobs.results[1].jobId # jobs.results[2].jobId
    /\ jobs.results[1].txHash > jobs.results[2].txHash

----
\* C31: constructing an AcpMemo never fails whatever the content; for a
\* content that is not JSON the structured payload and payloadType are
\* undefined; a content that is a typed payload gives that payload and its
\* type; and the content of the memo is the content it was given.
C31_TolerantPayloadView ==
    memo.pc # "rest" =>
        /\ memo.pc \in {"new", "constructed"}
        /\ memo.content = memo.given
        /\ (memo.pc = "constructed" /\ memo.given \in NonJsonContents) =>
              /\ memo.structuredContent = Undefined
              /\ memo.read # "none" => memo.returned = Undefined
        /\ memo.pc = "constructed" =>
              \A v \in FlatValues :
                  memo.given = stringify(TypedPayload(<<"f", "e", "e">>, v)) =>
                      /\ stringify(memo.structuredContent) = memo.given
                      /\ memo.read = "payloadType" =>
                            memo.returned = Quoted(<<"f", "e", "e">>)

\* payloadType was read from a memo constructed with truncated JSON.
C31_Witness ==
    /\ memo.pc = "constructed"
    /\ memo.given = <<"{", "\"", "a", "\"", ":", "1">>
    /\ memo.read = "payloadType"
    /\ memo.returned = Undefined























====
